---- MODULE Spec2Model ----
(***************************************************************************)
(* Lifecycle of the externally controlled processes of osmo-gsm-tester:    *)
(* srsENB, srsUE, AmarisoftUE, srsEPC and OsmoPcu.                         *)
(*                                                                         *)
(* One test drives one object of one kind; a second object of the same     *)
(* kind (the peer) may be configured on the same run node.  Every handler  *)
(* of the object (start/connect, scp_back_metrics, verify_metric, stop,    *)
(* cleanup) is one atomic action: the harness is single threaded.  A       *)
(* handler is modelled as the sequence of calls it makes to its            *)
(* collaborators (rendering, remote shell, helper tasks, process           *)
(* primitive); the sequence is kept in `call`, and its effects on the      *)
(* object, the processes, the stop-list and the remote file system are     *)
(* computed from it.                                                       *)
(***************************************************************************)
EXTENDS Integers, Sequences, FiniteSets, TLC

VARIABLES
    kind,        \* the class of the objects of this test
    conf,        \* the configuration of this test (suite and resource level)
    run_node,    \* "local" or the address of the remote host
    obj,         \* the fields of the object
    procs,       \* every main process created so far, by process id
    stoplist,    \* testenv: the process ids remembered for teardown
    remote_fs,   \* files staged on remote hosts
    phase,       \* "test" while the test body runs, then "teardown"
    cleaned,     \* cleanup() has run
    call         \* the last handler call: name, calls made, raised, state found

vars == <<kind, conf, run_node, obj, procs, stoplist, remote_fs, phase, cleaned, call>>

(* ------------------------------ bounds -------------------------------- *)
MaxProcs == 2
MaxTasks == 2
MaxPrb == 112
MaxLen == 4
MaxWindow == 3
MaxCarriers == 2
MaxSubscribers == 2
MaxInstances == 3
MaxNames == 2
MaxScalar == 2
MaxStdout == 6
MaxUes == 5

Kinds == {"srsENB", "srsUE", "AmarisoftUE", "srsEPC", "OsmoPcu"}
RunNodes == {"local", "hostA"}

(* ------------------------------ paths --------------------------------- *)
\* A path is a namespace ("local" or "remote") and its components.
NoPath == [ns |-> "none", p |-> <<>>]
Dir(ns, parts) == [ns |-> ns, p |-> parts]
child(d, f) == [ns |-> d.ns, p |-> Append(d.p, f)]
Under(path, d) ==
    /\ path.ns = d.ns
    /\ Len(path.p) >= Len(d.p)
    /\ SubSeq(path.p, 1, Len(d.p)) = d.p

is_local(node) == node = "local"

\* testenv.test().get_run_dir().new_dir(self.name())
LocalRunDir(name) == Dir("local", <<"run", name>>)

(* ----------------------- calls and their outcome ---------------------- *)
\* One call to a collaborator.  `bad` is the set of calls that fail when made.
Call(op, arg, path, bad) ==
    [tr |-> <<[op |-> op, arg |-> arg, path |-> path, ok |-> arg \notin bad]>>,
     exc |-> arg \in bad, ret |-> TRUE]
Done(tr, ret) == [tr |-> tr, exc |-> FALSE, ret |-> ret]
Nothing == Done(<<>>, TRUE)
Log(msg) == Done(<<[op |-> "log", arg |-> msg, path |-> NoPath, ok |-> TRUE]>>, TRUE)
Raise(msg) ==
    [tr |-> <<[op |-> "raise", arg |-> msg, path |-> NoPath, ok |-> FALSE]>>,
     exc |-> TRUE, ret |-> TRUE]
\* a; b  -- b is not run when a raised
Then(a, b) == IF a.exc THEN a ELSE [tr |-> a.tr \o b.tr, exc |-> b.exc, ret |-> b.ret]
\* try: a  except Exception as e: self.log(repr(e))
TryLog(a) == IF a.exc THEN Then([a EXCEPT !.exc = FALSE], Log("repr(e)")) ELSE a

RECURSIVE Block(_)
Block(rs) == IF rs = <<>> THEN Nothing ELSE Then(Head(rs), Block(Tail(rs)))

Ops(tr, op) == {k \in 1..Len(tr) : tr[k].op = op}
Has(tr, op) == Ops(tr, op) # {}
HasOk(tr, op, arg) == \E k \in 1..Len(tr) : tr[k].op = op /\ tr[k].arg = arg /\ tr[k].ok
Made(tr, op, arg) == \E k \in 1..Len(tr) : tr[k].op = op /\ tr[k].arg = arg
Count(tr, op, arg) == Cardinality({k \in 1..Len(tr) : tr[k].op = op /\ tr[k].arg = arg})

(* --------------------- collaborators outside src/ --------------------- *)
\* config.overlay(base, patch) on one mapping of scalars: the patch wins,
\* keys of the base that the patch lacks are kept.
overlay(base, patch) ==
    [k \in DOMAIN base \cup DOMAIN patch |->
        IF k \in DOMAIN patch THEN patch[k] ELSE base[k]]

\* A configured string is the sequence of its whitespace separated words, so
\* str.split() of each element of a list, concatenated, is:
RECURSIVE split_all(_)
split_all(list) == IF list = <<>> THEN <<>> ELSE Head(list) \o split_all(Tail(list))

\* os.path.basename(str(self.inst)): the installation tree's base name
InstBasename == "inst"

\* One element of an argv: literal text, followed by a path when it names one.
Arg(text, path) == [text |-> text, path |-> path]

\* srslte_common.sleep_after_stop(): the grace period after stopping
sleep_after_stop == Done(<<[op |-> "sleep", arg |-> "stop_sleep_time", path |-> NoPath, ok |-> TRUE]>>, TRUE)
\* srslte_common.stop() / testenv.stop_process(self.process): terminate and wait
stop_process == Done(<<[op |-> "stop", arg |-> "process", path |-> NoPath, ok |-> TRUE]>>, TRUE)
\* self.testenv.test().set_kpis(self.get_kpi_tree())
set_kpis == Done(<<[op |-> "set_kpis", arg |-> "kpi_tree", path |-> NoPath, ok |-> TRUE]>>, TRUE)
\* process.Process(...) / rem_host.RemoteProcess(...): the handle, not yet launched
NewProcess(name) == Done(<<[op |-> "Process", arg |-> name, path |-> NoPath, ok |-> TRUE]>>, TRUE)
\* testenv.remember_to_stop(self.process)
remember_to_stop == Done(<<[op |-> "remember_to_stop", arg |-> "process", path |-> NoPath, ok |-> TRUE]>>, TRUE)
\* self.process.stdin_write('t\n'): never raises
stdin_write == Done(<<[op |-> "stdin_write", arg |-> "t", path |-> NoPath, ok |-> TRUE]>>, TRUE)

\* Task lists of a configuration: up to MaxTasks scripts, named by position.
TaskName(k) == "task" \o ToString(k)
TaskLists == {[k \in 1..n |-> TaskName(k)] : n \in 0..MaxTasks}
ReturnCodes(tasklist) == [1..Len(tasklist) -> {0, 1}]

(* ------------------------------ objects ------------------------------- *)
NoFiles == [k \in {} |-> NoPath]
NewObject(files) ==
    [process |-> 0,
     have_metrics_file |-> FALSE,
     enable_pcap |-> FALSE,
     enable_tracing |-> FALSE,
     enable_malloc_interceptor |-> FALSE,
     file |-> [k \in DOMAIN files |-> NoPath],
     remote_file |-> [k \in DOMAIN files |-> NoPath],
     remote_inst |-> NoPath,
     remote_run_dir |-> NoPath,
     values |-> NoFiles,
     additional_args |-> <<>>]

\* self.running(): not self.process.terminated()
running(self, ps) == ps[self.process].state # "terminated"

(* ------------------------------ srsENB -------------------------------- *)
srsENB_REMOTE_DIR == "/osmo-gsm-tester-srsenb"
srsENB_BINFILE == "srsenb"
srsENB_FILES ==
    [config_file |-> "srsenb.conf",
     config_sib_file |-> "srsenb_sib.conf",
     config_rr_file |-> "srsenb_rr.conf",
     config_rb_file |-> "srsenb_rb.conf",
     log_file |-> "srsenb.log",
     pcap_file |-> "srsenb_mac.pcap",
     s1ap_pcap_file |-> "srsenb_s1ap.pcap",
     tracing_file |-> "srsenb_tracing.log",
     metrics_file |-> "srsenb_metrics.csv",
     interceptor_file |-> "srsenb_minterceptor.log"]

\* eNodeB.name(): one name per eNodeB object
srsENB_name(who) == "srsenb_" \o who

\* run_task() were it to take every exit code for success
srsENB_run_task_unchecked(task, returncode) ==
    [Call("launch_sync", task, NoPath, IF returncode # 0 THEN {task} ELSE {}) EXCEPT !.exc = FALSE]

\* run_task(), lines 176-207: a non-zero exit code raises, `return False` after
\* the raise is never reached.
srsENB_run_task(task, returncode) ==
    IF returncode # 0
    THEN Then([Call("launch_sync", task, NoPath, {task}) EXCEPT !.exc = FALSE],
              Raise("Error executing the pre run scripts. Aborting"))
    ELSE Call("launch_sync", task, NoPath, {})

RECURSIVE srsENB_run_tasks(_, _)
srsENB_run_tasks(tasklist, rc) ==
    IF tasklist = <<>> THEN Done(<<>>, TRUE)
    ELSE LET r == srsENB_run_task(Head(tasklist), Head(rc))
         IN IF r.exc \/ ~r.ret THEN [r EXCEPT !.ret = FALSE]
            ELSE Then(r, srsENB_run_tasks(Tail(tasklist), Tail(rc)))

\* self._conf.get(key, None), which answers `value`
conf_get(key, value) ==
    Done(<<[op |-> "conf.get", arg |-> key, path |-> NoPath, ok |-> TRUE,
            value |-> value]>>, TRUE)

\* prerun_tasks(), lines 210-219
srsENB_prerun_tasks(prerun_tasklist, rc) ==
    Then(conf_get("prerun_scripts", prerun_tasklist),
         srsENB_run_tasks(prerun_tasklist, rc))
\* postrun_tasks(), lines 222-231
srsENB_postrun_tasks(postrun_tasklist, rc) ==
    Then(conf_get("postrun_scripts", postrun_tasklist),
         srsENB_run_tasks(postrun_tasklist, rc))

srsENB_gen_conf_file(path, filename, bad) == Call("render", filename, path, bad)

\* The result of a handler: the calls made, whether it raised, the object's
\* fields afterwards and the argv of the process it created.
Result(tr, exc, self, argv) == [tr |-> tr, exc |-> exc, ret |-> TRUE, self |-> self, argv |-> argv]
\* The inst checks of configure() failed: nothing was assigned yet.
ChecksFailed(tr) == \E k \in 1..Len(tr) : tr[k].op \in {"isdir", "isfile"} /\ ~tr[k].ok
ConfigureResult(r, self, s) ==
    Result(r.tr, r.exc, IF ChecksFailed(r.tr) THEN self ELSE s, <<>>)

srsENB_remote_prefix_dir(in) ==
    IF in.remote_dir # "" THEN Dir("remote", <<in.remote_dir>>)
    ELSE Dir("remote", <<srsENB_REMOTE_DIR>>)

\* configure(), lines 305-338: the local paths and, for a remote run node, the
\* remote ones.
srsENB_paths(self, local, run_dir, remote_prefix_dir, name) ==
    IF local
    THEN [self EXCEPT !.file = [k \in DOMAIN srsENB_FILES |-> child(run_dir, srsENB_FILES[k])]]
    ELSE [self EXCEPT
            !.file = [k \in DOMAIN srsENB_FILES |-> child(run_dir, srsENB_FILES[k])],
            !.remote_inst = child(remote_prefix_dir, InstBasename),
            !.remote_run_dir = child(remote_prefix_dir, name),
            !.remote_file =
                [k \in DOMAIN srsENB_FILES |->
                    child(child(remote_prefix_dir, name), srsENB_FILES[k])]]

\* configure() were it to hand out the local path whatever the placement
srsENB_active_local(s, local, k) == s.file[k]

\* configure(), lines 342-349: x_file if is_local() else remote_x_file
srsENB_active(s, local, k) == IF local THEN s.file[k] ELSE s.remote_file[k]

\* configure(), lines 340-358: the computed paths laid over super().configure()
srsENB_values(s, local, base) ==
    overlay(base,
            [metrics_filename |-> srsENB_active(s, local, "metrics_file"),
             tracing_filename |-> srsENB_active(s, local, "tracing_file"),
             sib_filename |-> srsENB_active(s, local, "config_sib_file"),
             rr_filename |-> srsENB_active(s, local, "config_rr_file"),
             rb_filename |-> srsENB_active(s, local, "config_rb_file"),
             log_filename |-> srsENB_active(s, local, "log_file"),
             pcap_filename |-> srsENB_active(s, local, "pcap_file"),
             s1ap_pcap_filename |-> srsENB_active(s, local, "s1ap_pcap_file")])

\* configure(), lines 360-378 and 415
srsENB_settings(s, local, in) ==
    [s EXCEPT
       !.enable_malloc_interceptor = in.enable_malloc_interceptor,
       !.enable_pcap = in.enable_pcap,
       !.enable_tracing = in.enable_tracing,
       !.additional_args = split_all(in.additional_args),
       !.values = srsENB_values(s, local, in.base)]

\* configure() were a failed push only logged
srsENB_configure_calls_besteffort(s, local, bad) ==
    Block(<<Call("isdir", "lib", NoPath, bad),
            Call("isfile", "bin", NoPath, bad),
            srsENB_gen_conf_file(s.file.config_file, srsENB_FILES.config_file, bad),
            srsENB_gen_conf_file(s.file.config_sib_file, srsENB_FILES.config_sib_file, bad),
            srsENB_gen_conf_file(s.file.config_rr_file, srsENB_FILES.config_rr_file, bad),
            srsENB_gen_conf_file(s.file.config_rb_file, srsENB_FILES.config_rb_file, bad),
            IF local THEN Nothing
            ELSE Block(<<Call("recreate_remote_dir", "remote_inst", s.remote_inst, bad),
                         Call("scp", "scp-inst-to-remote", s.remote_inst, bad),
                         Call("recreate_remote_dir", "remote_run_dir", s.remote_run_dir, bad),
                         TryLog(Call("scp", "scp-cfg-to-remote", s.remote_file.config_file, bad)),
                         Call("scp", "scp-cfg-sib-to-remote", s.remote_file.config_sib_file, bad),
                         Call("scp", "scp-cfg-rr-to-remote", s.remote_file.config_rr_file, bad),
                         Call("scp", "scp-cfg-rb-to-remote", s.remote_file.config_rb_file, bad)>>)>>)

\* configure(), lines 299-303 and 417-429: the calls that can fail
srsENB_configure_calls(s, local, bad) ==
    Block(<<Call("isdir", "lib", NoPath, bad),
            Call("isfile", "bin", NoPath, bad),
            srsENB_gen_conf_file(s.file.config_file, srsENB_FILES.config_file, bad),
            srsENB_gen_conf_file(s.file.config_sib_file, srsENB_FILES.config_sib_file, bad),
            srsENB_gen_conf_file(s.file.config_rr_file, srsENB_FILES.config_rr_file, bad),
            srsENB_gen_conf_file(s.file.config_rb_file, srsENB_FILES.config_rb_file, bad),
            IF local THEN Nothing
            ELSE Block(<<Call("recreate_remote_dir", "remote_inst", s.remote_inst, bad),
                         Call("scp", "scp-inst-to-remote", s.remote_inst, bad),
                         Call("recreate_remote_dir", "remote_run_dir", s.remote_run_dir, bad),
                         Call("scp", "scp-cfg-to-remote", s.remote_file.config_file, bad),
                         Call("scp", "scp-cfg-sib-to-remote", s.remote_file.config_sib_file, bad),
                         Call("scp", "scp-cfg-rr-to-remote", s.remote_file.config_rr_file, bad),
                         Call("scp", "scp-cfg-rb-to-remote", s.remote_file.config_rb_file, bad)>>)>>)

srsENB_configured(self, node, name, in) ==
    srsENB_settings(
        srsENB_paths(self, is_local(node), LocalRunDir(name), srsENB_remote_prefix_dir(in), name),
        is_local(node), in)

srsENB_configure(self, node, name, in, bad) ==
    ConfigureResult(
        srsENB_configure_calls(srsENB_configured(self, node, name, in), is_local(node), bad),
        self,
        srsENB_configured(self, node, name, in))

\* The additional arguments as argv elements
ArgList(additional_args) == [k \in 1..Len(additional_args) |-> Arg(additional_args[k], NoPath)]

\* self.process = <the new handle> once the handle is created
Started(r, self, pid, argv) ==
    Result(r.tr, r.exc, IF Has(r.tr, "Process") THEN [self EXCEPT !.process = pid] ELSE self, argv)

srsENB_start_remotely(self, pid, bad) ==
    Started(Block(<<IF self.enable_malloc_interceptor
                    THEN Call("lib_path_malloc_interceptor", "LD_PRELOAD", NoPath, bad)
                    ELSE Nothing,
                    NewProcess(srsENB_BINFILE),
                    remember_to_stop,
                    Call("launch", "launch", NoPath, bad)>>),
            self, pid,
            <<Arg("", child(child(self.remote_inst, "bin"), srsENB_BINFILE)),
              Arg("", self.remote_file.config_file)>>
            \o ArgList(self.additional_args)
            \o (IF self.enable_malloc_interceptor
                THEN <<Arg(" 2> ", self.remote_file.interceptor_file)>> ELSE <<>>))

srsENB_start_locally(self, pid, bad) ==
    Started(Block(<<NewProcess(srsENB_BINFILE),
                    remember_to_stop,
                    Call("launch", "launch", NoPath, bad)>>),
            self, pid,
            <<Arg("", child(child(Dir("local", <<InstBasename>>), "bin"), srsENB_BINFILE)),
              Arg("", self.file.config_file)>>
            \o ArgList(self.additional_args))

\* a; b for handler results: b's fields and argv stand when a did not raise
Both(a, b) ==
    IF a.exc THEN a ELSE Result(a.tr \o b.tr, b.exc, b.self, b.argv)
\* ...; self.process.stdin_write('t\n')
ThenTrace(a) == IF a.exc THEN a ELSE Result(a.tr \o stdin_write.tr, FALSE, a.self, a.argv)

\* start(), lines 239-250, after configure() returned with fields `self`
srsENB_start_configured(self, p, local, pid, bad) ==
    IF p.exc THEN Result(p.tr, TRUE, self, <<>>)
    ELSE IF ~p.ret
    THEN Result(p.tr \o Log("Pre run tasks failed. Aborting").tr, FALSE, self, <<>>)
    ELSE Both(Result(p.tr, FALSE, self, <<>>),
              ThenTrace(IF local THEN srsENB_start_locally(self, pid, bad)
                        ELSE srsENB_start_remotely(self, pid, bad)))

srsENB_start_from(c, p, local, pid, bad) ==
    Both(c, srsENB_start_configured(c.self, p, local, pid, bad))

srsENB_start(self, node, name, pid, in, bad) ==
    srsENB_start_from(srsENB_configure(self, node, name, in, bad),
                      srsENB_prerun_tasks(in.prerun, in.prerun_rc),
                      is_local(node), pid, bad)

\* scp_back_metrics(), lines 157-158
\* scp_back_metrics() were it to leave a running process alone
StopIfRunning_never(self, ps) ==
    IF self.process = 0 THEN Raise("AttributeError: terminated") ELSE Nothing

StopIfRunning(self, ps) ==
    IF self.process = 0 THEN Raise("AttributeError: terminated")
    ELSE IF running(self, ps) THEN stop_process ELSE Nothing

\* scp_back_metrics() were have_metrics_file set before the pull is tried
MetricsResult_marked_first(r, self) ==
    Result(r.tr, r.exc, [self EXCEPT !.have_metrics_file = TRUE], <<>>)

MetricsResult(r, self) ==
    Result(r.tr, r.exc, IF r.exc THEN self ELSE [self EXCEPT !.have_metrics_file = TRUE], <<>>)

\* scp_back_metrics() were the pull made for every placement
PullMetrics_everywhere(pull, local, raiseException) ==
    IF raiseException THEN pull ELSE TryLog(pull)

\* scp_back_metrics(), lines 161-170
PullMetrics(pull, local, raiseException) ==
    IF local THEN Nothing ELSE IF raiseException THEN pull ELSE TryLog(pull)

srsENB_scp_back_metrics(self, node, ps, raiseException, bad) ==
    IF ~self.have_metrics_file
    THEN MetricsResult(
            Then(StopIfRunning(self, ps),
                 PullMetrics(Call("scpfrom", "scp-back-metrics", self.remote_file.metrics_file, bad),
                             is_local(node), raiseException)),
            self)
    ELSE Result(Log("Metrics have already been copied back").tr, FALSE, self, <<>>)

\* `if not self.postrun_tasks(): self.log(...)`
LogIfFalse(t, msg) == IF ~t.exc /\ ~t.ret THEN Then(t, Log(msg)) ELSE t

\* cleanup(), lines 122-149
srsENB_copy_back(self, bad) ==
    Block(<<TryLog(Call("scpfrom", "scp-back-log", self.remote_file.log_file, bad)),
            IF self.enable_pcap
            THEN Then(TryLog(Call("scpfrom", "scp-back-pcap", self.remote_file.pcap_file, bad)),
                      TryLog(Call("scpfrom", "scp-back-s1-pcap", self.remote_file.s1ap_pcap_file, bad)))
            ELSE Nothing,
            IF self.enable_tracing
            THEN TryLog(Call("scpfrom", "scp-back-tracing", self.remote_file.tracing_file, bad))
            ELSE Nothing,
            IF self.enable_malloc_interceptor
            THEN TryLog(Call("scpfrom", "scp-back-interceptor", self.remote_file.interceptor_file, bad))
            ELSE Nothing,
            set_kpis>>)

\* the rest of a cleanup after its first part `before`: the metrics, then the
\* other files
CleanupResult(before, m, pulls, self) ==
    IF before.exc THEN Result(before.tr, TRUE, self, <<>>)
    ELSE IF m.exc THEN Result(before.tr \o m.tr, TRUE, m.self, <<>>)
    ELSE Result(before.tr \o m.tr \o pulls.tr, pulls.exc, m.self, <<>>)

\* cleanup() were the metrics pulled before the wait and the post-run tasks
srsENB_cleanup_pull_first(self, node, ps, in, bad) ==
    IF self.process = 0 \/ is_local(node)
    THEN Result(<<>>, FALSE, self, <<>>)
    ELSE CleanupResult(
            Nothing,
            [srsENB_scp_back_metrics(self, node, ps, FALSE, bad) EXCEPT
                !.tr = @ \o Then(sleep_after_stop,
                                 TryLog(srsENB_postrun_tasks(in.postrun, in.postrun_rc))).tr],
            srsENB_copy_back(self, bad),
            self)

srsENB_cleanup(self, node, ps, in, bad) ==
    IF self.process = 0 \/ is_local(node)
    THEN Result(<<>>, FALSE, self, <<>>)
    ELSE CleanupResult(
            Then(sleep_after_stop,
                 LogIfFalse(srsENB_postrun_tasks(in.postrun, in.postrun_rc),
                            "Could not execute the post run tasks")),
            srsENB_scp_back_metrics(self, node, ps, FALSE, bad),
            srsENB_copy_back(self, bad),
            self)

(* ------------------------------- srsUE -------------------------------- *)
srsUE_REMOTE_DIR == "/osmo-gsm-tester-srsue"
srsUE_BINFILE == "srsue"
srsUE_FILES ==
    [config_file |-> "srsue.conf",
     pcap_file |-> "srsue.pcap",
     log_file |-> "srsue.log",
     metrics_file |-> "srsue_metrics.csv"]

\* MS.name(): 'srsue_%s' % self.addr(), made unique per object by the run dir
srsUE_name(who) == "srsue_" \o who
srsUE_netns == "srsue1"

srsUE_run_task(task, returncode) ==
    IF returncode # 0
    THEN Then([Call("launch_sync", task, NoPath, {task}) EXCEPT !.exc = FALSE],
              Raise("Error executing the pre run scripts. Aborting"))
    ELSE Call("launch_sync", task, NoPath, {})

RECURSIVE srsUE_prerun_tasks(_, _)
srsUE_prerun_tasks(prerun_tasklist, rc) ==
    IF prerun_tasklist = <<>> THEN Done(<<>>, TRUE)
    ELSE IF Head(rc) # 0
    THEN [srsUE_run_task(Head(prerun_tasklist), Head(rc)) EXCEPT !.ret = FALSE]
    ELSE Then(srsUE_run_task(Head(prerun_tasklist), Head(rc)),
              srsUE_prerun_tasks(Tail(prerun_tasklist), Tail(rc)))

\* configure(), lines 292-305
srsUE_paths(self, local, run_dir, remote_prefix_dir) ==
    IF local
    THEN [self EXCEPT !.file = [k \in DOMAIN srsUE_FILES |-> child(run_dir, srsUE_FILES[k])]]
    ELSE [self EXCEPT
            !.file = [k \in DOMAIN srsUE_FILES |-> child(run_dir, srsUE_FILES[k])],
            !.remote_inst = child(remote_prefix_dir, InstBasename),
            !.remote_run_dir = child(remote_prefix_dir, srsUE_BINFILE),
            !.remote_file =
                [k \in DOMAIN srsUE_FILES |->
                    child(child(remote_prefix_dir, srsUE_BINFILE), srsUE_FILES[k])]]

\* configure(), lines 313-315
srsUE_active(s, local, k) == IF local THEN s.file[k] ELSE s.remote_file[k]

\* configure(), lines 307-318
srsUE_values(s, local, base) ==
    overlay(base,
            [metrics_filename |-> srsUE_active(s, local, "metrics_file"),
             log_filename |-> srsUE_active(s, local, "log_file"),
             pcap_filename |-> srsUE_active(s, local, "pcap_file")])

\* configure() were the arguments added to the ones of the last configure()
srsUE_settings_accumulating(s, local, in) ==
    [s EXCEPT
       !.enable_pcap = in.enable_pcap,
       !.additional_args = @ \o split_all(in.additional_args),
       !.values = srsUE_values(s, local, in.base)]

\* configure(), lines 320-326
srsUE_settings(s, local, in) ==
    [s EXCEPT
       !.enable_pcap = in.enable_pcap,
       !.additional_args = split_all(in.additional_args),
       !.values = srsUE_values(s, local, in.base)]

\* configure() were the run directory recreated after the configuration
\* file is pushed
srsUE_configure_calls_push_first(s, local, bad) ==
    Block(<<Call("isdir", "lib", NoPath, bad),
            Call("isfile", "bin", NoPath, bad),
            Call("derive", "rf_dev_args", NoPath, bad),
            Call("render", srsUE_FILES.config_file, s.file.config_file, bad),
            IF local THEN Nothing
            ELSE Block(<<Call("recreate_remote_dir", "remote_inst", s.remote_inst, bad),
                         Call("scp", "scp-inst-to-remote", s.remote_inst, bad),
                         Call("scp", "scp-cfg-to-remote", s.remote_file.config_file, bad),
                         Call("recreate_remote_dir", "remote_run_dir", s.remote_run_dir,
                              bad)>>)>>)

\* configure(), lines 286-290 and 335-407: the calls that can fail
srsUE_configure_calls(s, local, bad) ==
    Block(<<Call("isdir", "lib", NoPath, bad),
            Call("isfile", "bin", NoPath, bad),
            Call("derive", "rf_dev_args", NoPath, bad),
            Call("render", srsUE_FILES.config_file, s.file.config_file, bad),
            IF local THEN Nothing
            ELSE Block(<<Call("recreate_remote_dir", "remote_inst", s.remote_inst, bad),
                         Call("scp", "scp-inst-to-remote", s.remote_inst, bad),
                         Call("recreate_remote_dir", "remote_run_dir", s.remote_run_dir, bad),
                         Call("scp", "scp-cfg-to-remote", s.remote_file.config_file, bad)>>)>>)

srsUE_configured(self, node, name, in) ==
    srsUE_settings(
        srsUE_paths(self, is_local(node), LocalRunDir(name), Dir("remote", <<srsUE_REMOTE_DIR>>)),
        is_local(node), in)

srsUE_configure(self, node, name, in, bad) ==
    ConfigureResult(
        srsUE_configure_calls(srsUE_configured(self, node, name, in), is_local(node), bad),
        self,
        srsUE_configured(self, node, name, in))

\* start_remotely() were the capabilities granted before the RPATH is patched
srsUE_start_remotely_setcap_first(self, pid, bad) ==
    Started(Block(<<Call("setcap", "setcap",
                         child(child(self.remote_inst, "bin"), srsUE_BINFILE), bad),
                    Call("change_elf_rpath", "rpath",
                         child(child(self.remote_inst, "bin"), srsUE_BINFILE), bad),
                    Call("create_netns", "netns", NoPath, bad),
                    NewProcess(srsUE_BINFILE),
                    remember_to_stop,
                    Call("launch", "launch", NoPath, bad)>>),
            self, pid,
            <<Arg("", child(child(self.remote_inst, "bin"), srsUE_BINFILE)),
              Arg("", self.remote_file.config_file),
              Arg("--gw.netns=" \o srsUE_netns, NoPath)>>
            \o ArgList(self.additional_args))

\* start_remotely(), lines 238-259
srsUE_start_remotely(self, pid, bad) ==
    Started(Block(<<Call("change_elf_rpath", "rpath",
                         child(child(self.remote_inst, "bin"), srsUE_BINFILE), bad),
                    Call("setcap", "setcap",
                         child(child(self.remote_inst, "bin"), srsUE_BINFILE), bad),
                    Call("create_netns", "netns", NoPath, bad),
                    NewProcess(srsUE_BINFILE),
                    remember_to_stop,
                    Call("launch", "launch", NoPath, bad)>>),
            self, pid,
            <<Arg("", child(child(self.remote_inst, "bin"), srsUE_BINFILE)),
              Arg("", self.remote_file.config_file),
              Arg("--gw.netns=" \o srsUE_netns, NoPath)>>
            \o ArgList(self.additional_args))

\* start_locally() were the additional arguments put before the netns flag
srsUE_start_locally_args_first(self, pid, bad) ==
    Started(Block(<<Call("change_elf_rpath", "rpath",
                         child(child(Dir("local", <<InstBasename>>), "bin"), srsUE_BINFILE), bad),
                    Call("setcap", "setcap",
                         child(child(Dir("local", <<InstBasename>>), "bin"), srsUE_BINFILE), bad),
                    Call("create_netns", "netns", NoPath, bad),
                    NewProcess(srsUE_BINFILE),
                    remember_to_stop,
                    Call("launch", "launch", NoPath, bad)>>),
            self, pid,
            <<Arg("", child(child(Dir("local", <<InstBasename>>), "bin"), srsUE_BINFILE)),
              Arg("", self.file.config_file)>>
            \o ArgList(self.additional_args)
            \o <<Arg("--gw.netns=" \o srsUE_netns, NoPath)>>)

\* start_locally(), lines 261-283
srsUE_start_locally(self, pid, bad) ==
    Started(Block(<<Call("change_elf_rpath", "rpath",
                         child(child(Dir("local", <<InstBasename>>), "bin"), srsUE_BINFILE), bad),
                    Call("setcap", "setcap",
                         child(child(Dir("local", <<InstBasename>>), "bin"), srsUE_BINFILE), bad),
                    Call("create_netns", "netns", NoPath, bad),
                    NewProcess(srsUE_BINFILE),
                    remember_to_stop,
                    Call("launch", "launch", NoPath, bad)>>),
            self, pid,
            <<Arg("", child(child(Dir("local", <<InstBasename>>), "bin"), srsUE_BINFILE)),
              Arg("", self.file.config_file),
              Arg("--gw.netns=" \o srsUE_netns, NoPath)>>
            \o ArgList(self.additional_args))

\* connect(), lines 226-236, after configure() returned with fields `self`
srsUE_connect_configured(self, p, local, pid, bad) ==
    IF p.exc THEN Result(p.tr, TRUE, self, <<>>)
    ELSE IF ~p.ret THEN Result(p.tr, FALSE, self, <<>>)
    ELSE Both(Result(p.tr, FALSE, self, <<>>),
              ThenTrace(IF local THEN srsUE_start_locally(self, pid, bad)
                        ELSE srsUE_start_remotely(self, pid, bad)))

srsUE_connect_from(c, p, local, pid, bad) ==
    Both(c, srsUE_connect_configured(c.self, p, local, pid, bad))

srsUE_connect(self, node, name, pid, in, bad) ==
    srsUE_connect_from(srsUE_configure(self, node, name, in, bad),
                       srsUE_prerun_tasks(in.prerun, in.prerun_rc),
                       is_local(node), pid, bad)

\* scp_back_metrics() were it to pull whatever have_metrics_file says
srsUE_scp_back_metrics_again(self, node, ps, raiseException, bad) ==
    MetricsResult(
        Then(StopIfRunning(self, ps),
             PullMetrics(Call("scpfrom", "scp-back-metrics", self.remote_file.metrics_file, bad),
                         is_local(node), raiseException)),
        self)

srsUE_scp_back_metrics(self, node, ps, raiseException, bad) ==
    IF ~self.have_metrics_file
    THEN MetricsResult(
            Then(StopIfRunning(self, ps),
                 PullMetrics(Call("scpfrom", "scp-back-metrics", self.remote_file.metrics_file, bad),
                             is_local(node), raiseException)),
            self)
    ELSE Result(Log("Metrics have already been copied back").tr, FALSE, self, <<>>)

\* verify_metric(), lines 466-470: scp_back_metrics(self) passes the object as
\* raiseException, which is true; then the metrics file is parsed and verified.
VerifyResult(m, v) ==
    IF m.exc THEN m ELSE Result(m.tr \o v.tr, v.exc, m.self, <<>>)

\* verify_metric() were it to retrieve the metrics as cleanup() does
srsUE_verify_metric_besteffort(self, node, ps, bad) ==
    VerifyResult(srsUE_scp_back_metrics(self, node, ps, FALSE, bad),
                 Then(Call("genfromtxt", "metrics_file", self.file.metrics_file, bad),
                      Call("verify", "criterion", NoPath, bad)))

srsUE_verify_metric(self, node, ps, bad) ==
    VerifyResult(srsUE_scp_back_metrics(self, node, ps, TRUE, bad),
                 Then(Call("genfromtxt", "metrics_file", self.file.metrics_file, bad),
                      Call("verify", "criterion", NoPath, bad)))

\* cleanup(), lines 130-141
srsUE_copy_back(self, bad) ==
    Block(<<TryLog(Call("scpfrom", "scp-back-log", self.remote_file.log_file, bad)),
            IF self.enable_pcap
            THEN TryLog(Call("scpfrom", "scp-back-pcap", self.remote_file.pcap_file, bad))
            ELSE Nothing,
            set_kpis>>)

srsUE_cleanup(self, node, ps, bad) ==
    IF self.process = 0 \/ is_local(node)
    THEN Result(<<>>, FALSE, self, <<>>)
    ELSE CleanupResult(sleep_after_stop,
                       srsUE_scp_back_metrics(self, node, ps, FALSE, bad),
                       srsUE_copy_back(self, bad),
                       self)

(* ---------------------------- AmarisoftUE ----------------------------- *)
AmarisoftUE_REMOTE_DIR == "/osmo-gsm-tester-amarisoftue"
AmarisoftUE_BINFILE == "lteue"
AmarisoftUE_FILES ==
    [config_file |-> "amarisoft_lteue.cfg",
     config_rf_file |-> "amarisoft_rf_driver.cfg",
     log_file |-> "lteue.log",
     ifup_file |-> "ue-ifup"]

\* MS.name(): 'amarisoftue_%s' % self.addr()
AmarisoftUE_name(who) == "amarisoftue_" \o who

AmarisoftUE_gen_conf_file(path, filename, bad) == Call("render", filename, path, bad)

\* configure(), lines 229-260: remote_run_dir is a local variable of
\* configure(), the object does not keep it.
AmarisoftUE_paths(self, local, run_dir, remote_prefix_dir) ==
    IF local
    THEN [self EXCEPT
            !.file = [k \in DOMAIN AmarisoftUE_FILES |-> child(run_dir, AmarisoftUE_FILES[k])]]
    ELSE [self EXCEPT
            !.file = [k \in DOMAIN AmarisoftUE_FILES |-> child(run_dir, AmarisoftUE_FILES[k])],
            !.remote_inst = child(remote_prefix_dir, InstBasename),
            !.remote_file =
                [k \in DOMAIN AmarisoftUE_FILES |->
                    child(child(remote_prefix_dir, AmarisoftUE_BINFILE), AmarisoftUE_FILES[k])]]

\* configure(), lines 271-272
AmarisoftUE_active(s, local, k) == IF local THEN s.file[k] ELSE s.remote_file[k]

\* configure(), lines 262-274
AmarisoftUE_values(s, local, base) ==
    overlay(base,
            [log_filename |-> AmarisoftUE_active(s, local, "log_file"),
             ifup_filename |-> AmarisoftUE_active(s, local, "ifup_file")])

AmarisoftUE_settings(s, local, in) ==
    [s EXCEPT !.values = AmarisoftUE_values(s, local, in.base)]

\* configure(), lines 225-227 and 280-338: the calls that can fail
AmarisoftUE_configure_calls(s, local, remote_run_dir, bad) ==
    Block(<<Call("isfile", "bin", NoPath, bad),
            Call("derive", "bandwidth", NoPath, bad),
            AmarisoftUE_gen_conf_file(s.file.config_file, AmarisoftUE_FILES.config_file, bad),
            AmarisoftUE_gen_conf_file(s.file.config_rf_file, AmarisoftUE_FILES.config_rf_file, bad),
            IF local THEN Nothing
            ELSE Block(<<Call("recreate_remote_dir", "remote_inst", s.remote_inst, bad),
                         Call("scp", "scp-inst-to-remote", s.remote_inst, bad),
                         Call("recreate_remote_dir", "remote_run_dir", remote_run_dir, bad),
                         Call("scp", "scp-cfg-to-remote", s.remote_file.config_file, bad),
                         Call("scp", "scp-cfg-rf-to-remote", s.remote_file.config_rf_file, bad),
                         Call("scp", "scp-ifup-to-remote", s.remote_file.ifup_file, bad)>>)>>)

AmarisoftUE_configured(self, node, name, in) ==
    AmarisoftUE_settings(
        AmarisoftUE_paths(self, is_local(node), LocalRunDir(name),
                          Dir("remote", <<AmarisoftUE_REMOTE_DIR>>)),
        is_local(node), in)

AmarisoftUE_configure(self, node, name, in, bad) ==
    ConfigureResult(
        AmarisoftUE_configure_calls(
            AmarisoftUE_configured(self, node, name, in), is_local(node),
            child(Dir("remote", <<AmarisoftUE_REMOTE_DIR>>), AmarisoftUE_BINFILE), bad),
        self,
        AmarisoftUE_configured(self, node, name, in))

\* start_remotely() and start_locally(): the binary and the binaries it execs
AmarisoftUE_launch(inst, config_file, self, pid, bad) ==
    Started(Block(<<Call("change_elf_rpath", "rpath", child(inst, AmarisoftUE_BINFILE), bad),
                    Call("change_elf_rpath", "rpath2", child(inst, "lteue-*"), bad),
                    Call("setcap", "setcap", child(inst, AmarisoftUE_BINFILE), bad),
                    Call("setcap", "setcap2", child(inst, "lteue-*"), bad),
                    NewProcess(AmarisoftUE_BINFILE),
                    remember_to_stop,
                    Call("launch", "launch", NoPath, bad)>>),
            self, pid,
            <<Arg("", child(inst, AmarisoftUE_BINFILE)), Arg("", config_file)>>)

AmarisoftUE_start_remotely(self, pid, bad) ==
    AmarisoftUE_launch(self.remote_inst, self.remote_file.config_file, self, pid, bad)

AmarisoftUE_start_locally(self, pid, bad) ==
    AmarisoftUE_launch(Dir("local", <<InstBasename>>), self.file.config_file, self, pid, bad)

AmarisoftUE_connect_from(c, local, pid, bad) ==
    Both(c, ThenTrace(IF local THEN AmarisoftUE_start_locally(c.self, pid, bad)
                      ELSE AmarisoftUE_start_remotely(c.self, pid, bad)))

AmarisoftUE_connect(self, node, name, pid, in, bad) ==
    AmarisoftUE_connect_from(AmarisoftUE_configure(self, node, name, in, bad),
                             is_local(node), pid, bad)

\* A cleanup that only pulls files: the object is left as it is
Pulled(r, self) == Result(r.tr, r.exc, self, <<>>)

\* cleanup() were it not to look at the process
AmarisoftUE_cleanup_unguarded(self, node, bad) ==
    IF is_local(node)
    THEN Result(<<>>, FALSE, self, <<>>)
    ELSE Pulled(TryLog(Call("scpfrom", "scp-back-log", self.remote_file.log_file, bad)), self)

\* cleanup(), lines 124-133
AmarisoftUE_cleanup(self, node, bad) ==
    IF self.process = 0 \/ is_local(node)
    THEN Result(<<>>, FALSE, self, <<>>)
    ELSE Pulled(TryLog(Call("scpfrom", "scp-back-log", self.remote_file.log_file, bad)), self)

(* ------------------------------- srsEPC ------------------------------- *)
srsEPC_REMOTE_DIR == "/osmo-gsm-tester-srsepc"
srsEPC_BINFILE == "srsepc"
srsEPC_FILES ==
    [config_file |-> "srsepc.conf",
     db_file |-> "srsepc_user_db.csv",
     pcap_file |-> "srsepc.pcap",
     log_file |-> "srsepc.log"]

\* 'srsepc_%s' % self._addr
srsEPC_name(who) == "srsepc_" \o who

\* configure(), lines 158-184
srsEPC_configured(self, run_dir, in) ==
    [self EXCEPT
       !.file = [k \in DOMAIN srsEPC_FILES |-> child(run_dir, srsEPC_FILES[k])],
       !.values = overlay(in.base, [run_addr |-> Dir("addr", <<"run_addr">>)])]

srsEPC_configure_calls(s, bad) ==
    Block(<<Call("assert", "rlc_drb_mode", NoPath, bad),
            Call("render", srsEPC_FILES.config_file, s.file.config_file, bad),
            Call("render", srsEPC_FILES.db_file, s.file.db_file, bad)>>)

srsEPC_configure(self, name, in, bad) ==
    Result(srsEPC_configure_calls(srsEPC_configured(self, LocalRunDir(name), in), bad).tr,
           srsEPC_configure_calls(srsEPC_configured(self, LocalRunDir(name), in), bad).exc,
           srsEPC_configured(self, LocalRunDir(name), in), <<>>)

\* start_remotely(), lines 92-99
srsEPC_remote_paths(self, remote_prefix_dir) ==
    [self EXCEPT
       !.remote_inst = child(remote_prefix_dir, InstBasename),
       !.remote_file =
           [k \in DOMAIN srsEPC_FILES |->
               child(child(remote_prefix_dir, srsEPC_BINFILE), srsEPC_FILES[k])]]

\* start_remotely() were it not to register the process with the test environment
srsEPC_start_remotely_calls_unregistered(s, remote_run_dir, bad) ==
    Block(<<Call("isdir", "lib", NoPath, bad),
            Call("isfile", "bin", NoPath, bad),
            Call("recreate_remote_dir", "remote_inst", s.remote_inst, bad),
            Call("scp", "scp-inst-to-remote", s.remote_inst, bad),
            Call("create_remote_dir", "remote_run_dir", remote_run_dir, bad),
            Call("scp", "scp-cfg-to-remote", s.remote_file.config_file, bad),
            Call("scp", "scp-db-to-remote", s.remote_file.db_file, bad),
            Call("change_elf_rpath", "rpath", child(child(s.remote_inst, "bin"), srsEPC_BINFILE), bad),
            Call("setcap", "setcap", child(child(s.remote_inst, "bin"), srsEPC_BINFILE), bad),
            NewProcess(srsEPC_BINFILE),
            Call("launch", "launch", NoPath, bad)>>)

\* start_remotely(), lines 85-90 and 101-125
srsEPC_start_remotely_calls(s, remote_run_dir, bad) ==
    Block(<<Call("isdir", "lib", NoPath, bad),
            Call("isfile", "bin", NoPath, bad),
            Call("recreate_remote_dir", "remote_inst", s.remote_inst, bad),
            Call("scp", "scp-inst-to-remote", s.remote_inst, bad),
            Call("create_remote_dir", "remote_run_dir", remote_run_dir, bad),
            Call("scp", "scp-cfg-to-remote", s.remote_file.config_file, bad),
            Call("scp", "scp-db-to-remote", s.remote_file.db_file, bad),
            Call("change_elf_rpath", "rpath", child(child(s.remote_inst, "bin"), srsEPC_BINFILE), bad),
            Call("setcap", "setcap", child(child(s.remote_inst, "bin"), srsEPC_BINFILE), bad),
            NewProcess(srsEPC_BINFILE),
            remember_to_stop,
            Call("launch", "launch", NoPath, bad)>>)

srsEPC_remote_argv(s) ==
    <<Arg("", child(child(s.remote_inst, "bin"), srsEPC_BINFILE)),
      Arg("", s.remote_file.config_file),
      Arg("--hss.db_file=", s.remote_file.db_file),
      Arg("--log.filename=", s.remote_file.log_file),
      Arg("--pcap.enable=true", NoPath),
      Arg("--pcap.filename=", s.remote_file.pcap_file)>>

srsEPC_started_remotely(r, self, s, pid) ==
    Result(r.tr, r.exc,
           IF ChecksFailed(r.tr) THEN self
           ELSE IF Has(r.tr, "Process") THEN [s EXCEPT !.process = pid] ELSE s,
           srsEPC_remote_argv(s))

srsEPC_start_remotely(self, pid, bad) ==
    srsEPC_started_remotely(
        srsEPC_start_remotely_calls(
            srsEPC_remote_paths(self, Dir("remote", <<srsEPC_REMOTE_DIR>>)),
            child(Dir("remote", <<srsEPC_REMOTE_DIR>>), srsEPC_BINFILE), bad),
        self,
        srsEPC_remote_paths(self, Dir("remote", <<srsEPC_REMOTE_DIR>>)),
        pid)

\* start_locally(), line 130: the name BINFILE is not defined in the function
\* or the module, evaluating it raises NameError.
srsEPC_start_locally(self, pid, bad) ==
    Result(Raise("NameError: name 'BINFILE' is not defined").tr, TRUE, self, <<>>)

srsEPC_start_from(c, local, pid, bad) ==
    Both(c, IF local THEN srsEPC_start_locally(c.self, pid, bad)
            ELSE srsEPC_start_remotely(c.self, pid, bad))

srsEPC_start(self, node, name, pid, in, bad) ==
    srsEPC_start_from(srsEPC_configure(self, name, in, bad), is_local(node), pid, bad)

\* cleanup() were its pulls not guarded by try/except
srsEPC_cleanup_unguarded(self, node, bad) ==
    IF self.process = 0 \/ is_local(node)
    THEN Result(<<>>, FALSE, self, <<>>)
    ELSE Pulled(Then(Call("scpfrom", "scp-back-log", self.remote_file.log_file, bad),
                     Call("scpfrom", "scp-back-pcap", self.remote_file.pcap_file, bad)),
                self)

\* cleanup(), lines 60-73
srsEPC_cleanup(self, node, bad) ==
    IF self.process = 0 \/ is_local(node)
    THEN Result(<<>>, FALSE, self, <<>>)
    ELSE Pulled(Then(TryLog(Call("scpfrom", "scp-back-log", self.remote_file.log_file, bad)),
                     TryLog(Call("scpfrom", "scp-back-pcap", self.remote_file.pcap_file, bad))),
                self)

(* ------------------------------- OsmoPcu ------------------------------ *)
OsmoPcu_BIN_PCU == "osmo-pcu"
OsmoPcu_FILES == [config_file |-> "osmo-pcu.cfg"]

\* log.Origin name: the binary's name
OsmoPcu_name(who) == OsmoPcu_BIN_PCU \o "_" \o who

\* configure(), lines 69-86: the resource's own settings are laid over the
\* computed socket path.
OsmoPcu_configured(self, run_dir, in) ==
    [self EXCEPT
       !.file = [k \in DOMAIN OsmoPcu_FILES |-> child(run_dir, OsmoPcu_FILES[k])],
       !.values = overlay([pcu_socket_path |-> Dir("local", <<"bts", "pcu_sock">>)], in.base)]

OsmoPcu_configure(self, name, in, bad) ==
    Result(Call("render", OsmoPcu_FILES.config_file,
                child(LocalRunDir(name), OsmoPcu_FILES.config_file), bad).tr,
           OsmoPcu_FILES.config_file \in bad,
           OsmoPcu_configured(self, LocalRunDir(name), in), <<>>)

\* launch_process() were it to register the process once it is launched
OsmoPcu_launch_process_late(binary_name, args, self, bad) ==
    Result(Block(<<Call("isfile", "bin", NoPath, bad),
                   NewProcess(binary_name),
                   Call("launch", "launch", NoPath, bad),
                   remember_to_stop>>).tr,
           "bin" \in bad \/ "launch" \in bad,
           self,
           <<Arg("", child(child(Dir("local", <<InstBasename>>), "bin"), binary_name))>> \o args)

\* launch_process(), lines 56-66: the handle is returned, not kept
OsmoPcu_launch_process(binary_name, args, self, bad) ==
    Result(Block(<<Call("isfile", "bin", NoPath, bad),
                   NewProcess(binary_name),
                   remember_to_stop,
                   Call("launch", "launch", NoPath, bad)>>).tr,
           "bin" \in bad \/ "launch" \in bad,
           self,
           <<Arg("", child(child(Dir("local", <<InstBasename>>), "bin"), binary_name))>> \o args)

\* ...; self.suite_run.poll()
ThenPoll(a, bad) ==
    IF a.exc THEN a
    ELSE Result(a.tr \o Call("poll", "poll", NoPath, bad).tr, "poll" \in bad, a.self, a.argv)

\* start(), lines 45-54
OsmoPcu_start_configured(self, bad) ==
    IF "lib" \in bad
    THEN Result(Call("isdir", "lib", NoPath, bad).tr, TRUE, self, <<>>)
    ELSE Both(Result(Call("isdir", "lib", NoPath, bad).tr, FALSE, self, <<>>),
              ThenPoll(OsmoPcu_launch_process(OsmoPcu_BIN_PCU,
                                              <<Arg("-r", NoPath), Arg("1", NoPath),
                                                Arg("-c", NoPath),
                                                Arg("", self.file.config_file),
                                                Arg("-i", NoPath),
                                                Arg("bsc.addr", NoPath)>>,
                                              self, bad),
                       bad))

OsmoPcu_start(self, name, in, bad) ==
    Both(OsmoPcu_configure(self, name, in, bad),
         OsmoPcu_start_configured(OsmoPcu_configured(self, LocalRunDir(name), in), bad))

(* ----------------------- effects of the calls made -------------------- *)
\* The processes after the calls of `tr`: `new` is the handle a Process call
\* creates, `pid` the object's process before the handler ran.
RECURSIVE ProcsAfter(_, _, _, _)
ProcsAfter(ps, tr, new, pid) ==
    IF tr = <<>> THEN ps
    ELSE LET c == Head(tr)
             ps1 == CASE c.op = "Process" -> Append(ps, new)
                      [] c.op = "launch" ->
                            [ps EXCEPT ![Len(ps)].launched = TRUE,
                                       ![Len(ps)].state = IF c.ok THEN "running" ELSE "terminated"]
                      [] c.op = "stop" -> [ps EXCEPT ![pid].state = "terminated"]
                      [] OTHER -> ps
         IN ProcsAfter(ps1, Tail(tr), new, pid)

\* testenv.remember_to_stop(): the handle created by this handler is appended
StoplistAfter(sl, tr, newpid) ==
    IF Has(tr, "remember_to_stop") THEN Append(sl, newpid) ELSE sl

\* The files of the remote host after the calls of `tr` made for `owner`.
RECURSIVE FsAfter(_, _, _)
FsAfter(fs, tr, owner) ==
    IF tr = <<>> THEN fs
    ELSE LET c == Head(tr)
             fs1 == CASE c.op = "recreate_remote_dir" /\ c.ok ->
                            {f \in fs : ~Under(f.path, c.path)}
                      [] c.op = "scp" /\ c.ok ->
                            {f \in fs : f.path # c.path}
                              \cup {[path |-> c.path, what |-> c.arg, owner |-> owner]}
                      [] OTHER -> fs
         IN FsAfter(fs1, Tail(tr), owner)

NewProc(argv, node) ==
    [state |-> "new", launched |-> FALSE, argv |-> argv, remote |-> ~is_local(node)]

(* ------------------------------ inputs -------------------------------- *)
\* What the defaults, the suite and the resource configuration leave under the
\* path keys before the computed values are laid over them.
NoBase == NoFiles
JunkBase ==
    [log_filename |-> Dir("local", <<"suite", "x.log">>),
     metrics_filename |-> Dir("remote", <<"suite", "x.csv">>),
     pcu_socket_path |-> Dir("local", <<"resource", "pcu_sock">>),
     run_addr |-> Dir("addr", <<"suite", "run_addr">>)]
\* The resource level settings: none, or a remote_dir, additional_args and
\* path keys set by hand.
Resources ==
    {[remote_dir |-> "", additional_args |-> <<>>, base |-> NoBase],
     [remote_dir |-> "/custom-remote-dir",
      additional_args |-> << <<"--a", "1">>, <<"--b">> >>, base |-> JunkBase]}

srsENB_Configs ==
    {[enable_pcap |-> f.enable_pcap, enable_tracing |-> f.enable_tracing,
      enable_malloc_interceptor |-> f.enable_malloc_interceptor,
      remote_dir |-> r.remote_dir, additional_args |-> r.additional_args,
      base |-> r.base] :
        f \in [enable_pcap : BOOLEAN, enable_tracing : BOOLEAN,
               enable_malloc_interceptor : BOOLEAN],
        r \in Resources}

srsUE_Configs ==
    {[enable_pcap |-> e, additional_args |-> r.additional_args, base |-> r.base] :
        e \in BOOLEAN, r \in Resources}

AmarisoftUE_Configs == {[base |-> r.base] : r \in Resources}
srsEPC_Configs == {[base |-> r.base] : r \in Resources}
OsmoPcu_Configs == {[base |-> r.base] : r \in Resources}

\* The calls of a start that can fail, by kind.
srsENB_StartCalls ==
    {"lib", "bin", "srsenb.conf", "srsenb_sib.conf", "srsenb_rr.conf",
     "srsenb_rb.conf", "remote_inst", "scp-inst-to-remote",
     "remote_run_dir", "scp-cfg-to-remote", "scp-cfg-sib-to-remote",
     "scp-cfg-rr-to-remote", "scp-cfg-rb-to-remote", "LD_PRELOAD", "launch"}
srsUE_StartCalls ==
    {"lib", "bin", "rf_dev_args", "srsue.conf", "remote_inst", "scp-inst-to-remote",
     "remote_run_dir", "scp-cfg-to-remote", "rpath", "setcap", "netns", "launch"}
AmarisoftUE_StartCalls ==
    {"bin", "bandwidth", "amarisoft_lteue.cfg", "amarisoft_rf_driver.cfg",
     "remote_inst", "scp-inst-to-remote", "remote_run_dir", "scp-cfg-to-remote",
     "scp-cfg-rf-to-remote", "scp-ifup-to-remote", "rpath", "rpath2", "setcap",
     "setcap2", "launch"}
srsEPC_StartCalls ==
    {"rlc_drb_mode", "srsepc.conf", "srsepc_user_db.csv", "lib", "bin",
     "remote_inst", "scp-inst-to-remote", "remote_run_dir", "scp-cfg-to-remote",
     "scp-db-to-remote", "rpath", "setcap", "launch"}
OsmoPcu_StartCalls == {"osmo-pcu.cfg", "lib", "bin", "launch", "poll"}

\* The pulls a cleanup() declares for an object with these settings.
srsENB_Pulls(self) ==
    {"scp-back-metrics", "scp-back-log"}
    \cup (IF self.enable_pcap THEN {"scp-back-pcap", "scp-back-s1-pcap"} ELSE {})
    \cup (IF self.enable_tracing THEN {"scp-back-tracing"} ELSE {})
    \cup (IF self.enable_malloc_interceptor THEN {"scp-back-interceptor"} ELSE {})
srsUE_Pulls(self) ==
    {"scp-back-metrics", "scp-back-log"}
    \cup (IF self.enable_pcap THEN {"scp-back-pcap"} ELSE {})
AmarisoftUE_Pulls == {"scp-back-log"}
srsEPC_Pulls == {"scp-back-log", "scp-back-pcap"}

\* The helper tasks of a start or a cleanup and their exit codes.
TaskRuns == UNION {{[list |-> tl, rc |-> rc] : rc \in ReturnCodes(tl)} : tl \in TaskLists}
NoTasks == [list |-> <<>>, rc |-> <<>>]
\* Either the helper tasks are what varies, or one call of the handler fails.
StartRuns(calls) ==
    {[tasks |-> t, bad |-> {}] : t \in TaskRuns}
    \cup {[tasks |-> NoTasks, bad |-> {b}] : b \in calls}
\* A start without helper tasks: at most one call fails.
PlainRuns(calls) == {{}} \cup {{b} : b \in calls}
\* Either the post-run tasks are what varies, or some of the pulls fail.
CleanupRuns(pulls) ==
    {[tasks |-> t, bad |-> {}] : t \in TaskRuns}
    \cup {[tasks |-> NoTasks, bad |-> b] : b \in (SUBSET pulls) \ {{}}}

(* ------------------------------ actions ------------------------------- *)
NameOf(k, who) ==
    CASE k = "srsENB" -> srsENB_name(who)
      [] k = "srsUE" -> srsUE_name(who)
      [] k = "AmarisoftUE" -> AmarisoftUE_name(who)
      [] k = "srsEPC" -> srsEPC_name(who)
      [] k = "OsmoPcu" -> OsmoPcu_name(who)

FilesOf(k) ==
    CASE k = "srsENB" -> srsENB_FILES
      [] k = "srsUE" -> srsUE_FILES
      [] k = "AmarisoftUE" -> AmarisoftUE_FILES
      [] k = "srsEPC" -> srsEPC_FILES
      [] k = "OsmoPcu" -> OsmoPcu_FILES

ConfigsOf(k) ==
    CASE k = "srsENB" -> srsENB_Configs
      [] k = "srsUE" -> srsUE_Configs
      [] k = "AmarisoftUE" -> AmarisoftUE_Configs
      [] k = "srsEPC" -> srsEPC_Configs
      [] k = "OsmoPcu" -> OsmoPcu_Configs

\* What a handler finds when it is called
Pre ==
    [have_metrics_file |-> obj.have_metrics_file,
     process |-> obj.process,
     running |-> \E p \in 1..Len(procs) : procs[p].state = "running",
     launched |-> {p \in 1..Len(procs) : procs[p].launched}]

\* OsmoPcu has no run node: it always runs on the main unit.
Init ==
    /\ kind \in Kinds
    /\ conf \in ConfigsOf(kind)
    /\ run_node \in IF kind = "OsmoPcu" THEN {"local"} ELSE RunNodes
    /\ obj = NewObject(FilesOf(kind))
    /\ procs = <<>>
    /\ stoplist = <<>>
    /\ remote_fs = {}
    /\ phase = "test"
    /\ cleaned = FALSE
    /\ call = [name |-> "init", tr |-> <<>>, exc |-> FALSE, pre |-> Pre]

\* The shared part of every handler action: the result r of handler `name`
\* becomes the state.
Handle(name, r, argv) ==
    /\ obj' = r.self
    /\ procs' = ProcsAfter(procs, r.tr, NewProc(argv, run_node), obj.process)
    /\ stoplist' = StoplistAfter(stoplist, r.tr, Len(procs) + 1)
    /\ remote_fs' = FsAfter(remote_fs, r.tr, "self")
    /\ call' = [name |-> name, tr |-> r.tr, exc |-> r.exc, pre |-> Pre]
    /\ UNCHANGED <<kind, conf, run_node, phase>>

srsENB_Start ==
    /\ kind = "srsENB" /\ phase = "test" /\ Len(procs) < MaxProcs
    /\ \E run \in StartRuns(srsENB_StartCalls) :
         LET r == srsENB_start(obj, run_node, NameOf(kind, "self"), Len(procs) + 1,
                               conf @@ [prerun |-> run.tasks.list, prerun_rc |-> run.tasks.rc],
                               run.bad)
         IN Handle("start", r, r.argv)
    /\ UNCHANGED cleaned

srsUE_Connect ==
    /\ kind = "srsUE" /\ phase = "test" /\ Len(procs) < MaxProcs
    /\ \E run \in StartRuns(srsUE_StartCalls) :
         LET r == srsUE_connect(obj, run_node, NameOf(kind, "self"), Len(procs) + 1,
                                conf @@ [prerun |-> run.tasks.list, prerun_rc |-> run.tasks.rc],
                                run.bad)
         IN Handle("start", r, r.argv)
    /\ UNCHANGED cleaned

AmarisoftUE_Connect ==
    /\ kind = "AmarisoftUE" /\ phase = "test" /\ Len(procs) < MaxProcs
    /\ \E bad \in PlainRuns(AmarisoftUE_StartCalls) :
         LET r == AmarisoftUE_connect(obj, run_node, NameOf(kind, "self"), Len(procs) + 1,
                                      conf, bad)
         IN Handle("start", r, r.argv)
    /\ UNCHANGED cleaned

srsEPC_Start ==
    /\ kind = "srsEPC" /\ phase = "test" /\ Len(procs) < MaxProcs
    /\ \E bad \in PlainRuns(srsEPC_StartCalls) :
         LET r == srsEPC_start(obj, run_node, NameOf(kind, "self"), Len(procs) + 1, conf, bad)
         IN Handle("start", r, r.argv)
    /\ UNCHANGED cleaned

OsmoPcu_Start ==
    /\ kind = "OsmoPcu" /\ phase = "test" /\ Len(procs) < MaxProcs
    /\ \E bad \in PlainRuns(OsmoPcu_StartCalls) :
         LET r == OsmoPcu_start(obj, NameOf(kind, "self"), conf, bad)
         IN Handle("start", r, r.argv)
    /\ UNCHANGED cleaned

srsENB_ScpBackMetrics ==
    /\ kind = "srsENB" /\ phase = "test"
    /\ \E raiseException \in BOOLEAN, bad \in SUBSET {"scp-back-metrics"} :
         LET r == srsENB_scp_back_metrics(obj, run_node, procs, raiseException, bad)
         IN Handle(IF raiseException THEN "scp_back_metrics" ELSE "scp_back_metrics_besteffort",
                   r, <<>>)
    /\ UNCHANGED cleaned

srsUE_ScpBackMetrics ==
    /\ kind = "srsUE" /\ phase = "test"
    /\ \E raiseException \in BOOLEAN, bad \in SUBSET {"scp-back-metrics"} :
         LET r == srsUE_scp_back_metrics(obj, run_node, procs, raiseException, bad)
         IN Handle(IF raiseException THEN "scp_back_metrics" ELSE "scp_back_metrics_besteffort",
                   r, <<>>)
    /\ UNCHANGED cleaned

srsUE_VerifyMetric ==
    /\ kind = "srsUE" /\ phase = "test"
    /\ \E bad \in PlainRuns({"scp-back-metrics", "metrics_file", "criterion"}) :
         LET r == srsUE_verify_metric(obj, run_node, procs, bad)
         IN Handle("verify_metric", r, <<>>)
    /\ UNCHANGED cleaned

srsENB_Cleanup ==
    /\ kind = "srsENB" /\ phase = "teardown" /\ ~cleaned
    /\ \E run \in CleanupRuns(srsENB_Pulls(obj)) :
         LET r == srsENB_cleanup(obj, run_node, procs,
                                 [postrun |-> run.tasks.list, postrun_rc |-> run.tasks.rc],
                                 run.bad)
         IN Handle("cleanup", r, <<>>)
    /\ cleaned' = TRUE

srsUE_Cleanup ==
    /\ kind = "srsUE" /\ phase = "teardown" /\ ~cleaned
    /\ \E bad \in SUBSET srsUE_Pulls(obj) :
         LET r == srsUE_cleanup(obj, run_node, procs, bad)
         IN Handle("cleanup", r, <<>>)
    /\ cleaned' = TRUE

AmarisoftUE_Cleanup ==
    /\ kind = "AmarisoftUE" /\ phase = "teardown" /\ ~cleaned
    /\ \E bad \in SUBSET AmarisoftUE_Pulls :
         LET r == AmarisoftUE_cleanup(obj, run_node, bad)
         IN Handle("cleanup", r, <<>>)
    /\ cleaned' = TRUE

srsEPC_Cleanup ==
    /\ kind = "srsEPC" /\ phase = "teardown" /\ ~cleaned
    /\ \E bad \in SUBSET srsEPC_Pulls :
         LET r == srsEPC_cleanup(obj, run_node, bad)
         IN Handle("cleanup", r, <<>>)
    /\ cleaned' = TRUE

\* configure() of a new object of this kind, named `name`
ConfigureOf(k, node, name, in) ==
    CASE k = "srsENB" -> srsENB_configure(NewObject(srsENB_FILES), node, name, in, {})
      [] k = "srsUE" -> srsUE_configure(NewObject(srsUE_FILES), node, name, in, {})
      [] k = "AmarisoftUE" ->
            AmarisoftUE_configure(NewObject(AmarisoftUE_FILES), node, name, in, {})

\* Another object of the same kind is configured for the same remote host.
PeerConfigure ==
    /\ kind \in {"srsENB", "srsUE", "AmarisoftUE"} /\ phase = "test" /\ ~is_local(run_node)
    /\ call.name # "peer.configure"
    /\ remote_fs' = FsAfter(remote_fs, ConfigureOf(kind, run_node, NameOf(kind, "peer"), conf).tr,
                            "peer")
    /\ call' = [name |-> "peer.configure",
                tr |-> ConfigureOf(kind, run_node, NameOf(kind, "peer"), conf).tr,
                exc |-> FALSE, pre |-> Pre]
    /\ UNCHANGED <<kind, conf, run_node, obj, procs, stoplist, phase, cleaned>>

\* obj.stop(): srslte_common.stop() / testenv.stop_process(self.process)
Stop ==
    /\ kind \in {"srsENB", "srsUE", "AmarisoftUE"} /\ phase = "test" /\ obj.process # 0
    /\ Handle("stop", Result(stop_process.tr, FALSE, obj, <<>>), <<>>)
    /\ UNCHANGED cleaned

\* A running process exits by itself.
ProcessExit ==
    /\ phase = "test"
    /\ \E p \in 1..Len(procs) :
         /\ procs[p].state = "running"
         /\ procs' = [procs EXCEPT ![p].state = "terminated"]
    /\ call' = [name |-> "exit", tr |-> <<>>, exc |-> FALSE, pre |-> Pre]
    /\ UNCHANGED <<kind, conf, run_node, obj, stoplist, remote_fs, phase, cleaned>>

\* testenv.stop(): every remembered process is terminated, then the objects
\* are cleaned up.
TestenvStop ==
    /\ phase = "test"
    /\ phase' = "teardown"
    /\ procs' = [p \in 1..Len(procs) |->
                   IF \E k \in 1..Len(stoplist) : stoplist[k] = p
                   THEN [procs[p] EXCEPT !.state = "terminated"] ELSE procs[p]]
    /\ call' = [name |-> "testenv.stop", tr |-> <<>>, exc |-> FALSE, pre |-> Pre]
    /\ UNCHANGED <<kind, conf, run_node, obj, stoplist, remote_fs, cleaned>>

Next ==
    \/ srsENB_Start
    \/ srsUE_Connect
    \/ AmarisoftUE_Connect
    \/ srsEPC_Start
    \/ OsmoPcu_Start
    \/ srsENB_ScpBackMetrics
    \/ srsUE_ScpBackMetrics
    \/ srsUE_VerifyMetric
    \/ srsENB_Cleanup
    \/ srsUE_Cleanup
    \/ AmarisoftUE_Cleanup
    \/ srsEPC_Cleanup
    \/ PeerConfigure
    \/ Stop
    \/ ProcessExit
    \/ TestenvStop

Spec == Init /\ [][Next]_vars

(* -------------------------- PRB count lookups ------------------------- *)
\* A function call that returns `v` or raises.
Returns(v) == [exc |-> FALSE, ret |-> v]
Raises(msg) == [exc |-> TRUE, ret |-> msg]

\* ms_srs.py: num_prb2symbol_sz(), lines 68-75
ms_srs_num_prb2symbol_sz(num_prb) ==
    IF num_prb = 6 THEN Returns(128)
    ELSE IF num_prb = 50 THEN Returns(768)
    ELSE IF num_prb = 75 THEN Returns(1024)
    ELSE Returns(1536)

\* f(x) * 15 * 1000, an exception of f propagates
Times15000(r) == IF r.exc THEN r ELSE Returns(r.ret * 15 * 1000)

\* ms_srs.py: num_prb2base_srate(), lines 77-78
ms_srs_num_prb2base_srate(num_prb) == Times15000(ms_srs_num_prb2symbol_sz(num_prb))

\* num_prb2symbol_sz() were it to answer 1536 above 110 as well
ms_amarisoft_num_prb2symbol_sz_clamped(num_prb) ==
    IF num_prb <= 6 THEN Returns(128)
    ELSE IF num_prb <= 15 THEN Returns(256)
    ELSE IF num_prb <= 50 THEN Returns(768)
    ELSE IF num_prb <= 75 THEN Returns(1024)
    ELSE Returns(1536)

\* ms_amarisoft.py: num_prb2symbol_sz(), lines 52-63
ms_amarisoft_num_prb2symbol_sz(num_prb) ==
    IF num_prb <= 6 THEN Returns(128)
    ELSE IF num_prb <= 15 THEN Returns(256)
    ELSE IF num_prb <= 50 THEN Returns(768)
    ELSE IF num_prb <= 75 THEN Returns(1024)
    ELSE IF num_prb <= 110 THEN Returns(1536)
    ELSE Raises("invalid num_prb")

\* ms_amarisoft.py: num_prb2base_srate(), lines 65-66
ms_amarisoft_num_prb2base_srate(num_prb) ==
    Times15000(ms_amarisoft_num_prb2symbol_sz(num_prb))

\* ms_amarisoft.py: num_prb2bandwidth(), lines 68-81.  The bandwidth is in
\* MHz; it is kept here in tenths of a MHz, 1.4 MHz being 14.
ms_amarisoft_num_prb2bandwidth(num_prb) ==
    IF num_prb <= 6 THEN Returns(14)
    ELSE IF num_prb <= 15 THEN Returns(30)
    ELSE IF num_prb <= 25 THEN Returns(50)
    ELSE IF num_prb <= 50 THEN Returns(100)
    ELSE IF num_prb <= 75 THEN Returns(150)
    ELSE IF num_prb <= 110 THEN Returns(200)
    ELSE Raises("invalid num_prb")

\* The lookups by name
Lookup(name, num_prb) ==
    CASE name = "ms_srs.num_prb2symbol_sz" -> ms_srs_num_prb2symbol_sz(num_prb)
      [] name = "ms_srs.num_prb2base_srate" -> ms_srs_num_prb2base_srate(num_prb)
      [] name = "ms_amarisoft.num_prb2symbol_sz" -> ms_amarisoft_num_prb2symbol_sz(num_prb)
      [] name = "ms_amarisoft.num_prb2base_srate" -> ms_amarisoft_num_prb2base_srate(num_prb)
      [] name = "ms_amarisoft.num_prb2bandwidth" -> ms_amarisoft_num_prb2bandwidth(num_prb)

\* The cell bandwidths, in PRB, an eNodeB can be configured with
PrbInputs == 1..MaxPrb

\* The state of the objects while a function of the modules is evaluated: none
\* is started.
IdleObjects ==
    /\ kind = "srsUE"
    /\ conf = [enable_pcap |-> FALSE, additional_args |-> <<>>, base |-> NoBase]
    /\ run_node = "local"
    /\ obj = NewObject(srsUE_FILES)
    /\ procs = <<>>
    /\ stoplist = <<>>
    /\ remote_fs = {}
    /\ phase = "test"
    /\ cleaned = FALSE

InitPrb ==
    /\ IdleObjects
    /\ call = [name |-> "init", tr |-> <<>>, exc |-> FALSE, pre |-> Pre]

\* The variables of the objects, which evaluating a function leaves alone
objects == <<kind, conf, run_node, obj, procs, stoplist, remote_fs, phase, cleaned>>

\* One lookup was evaluated: its name, argument and outcome.
Evaluated(name, num_prb, r) ==
    [name |-> name, num_prb |-> num_prb, exc |-> r.exc, ret |-> r.ret]

ms_srs_SymbolSz ==
    \E n \in PrbInputs :
        /\ call' = Evaluated("ms_srs.num_prb2symbol_sz", n, ms_srs_num_prb2symbol_sz(n))
        /\ UNCHANGED objects
ms_srs_BaseSrate ==
    \E n \in PrbInputs :
        /\ call' = Evaluated("ms_srs.num_prb2base_srate", n, ms_srs_num_prb2base_srate(n))
        /\ UNCHANGED objects
ms_amarisoft_SymbolSz ==
    \E n \in PrbInputs :
        /\ call' = Evaluated("ms_amarisoft.num_prb2symbol_sz", n,
                             ms_amarisoft_num_prb2symbol_sz(n))
        /\ UNCHANGED objects
ms_amarisoft_BaseSrate ==
    \E n \in PrbInputs :
        /\ call' = Evaluated("ms_amarisoft.num_prb2base_srate", n,
                             ms_amarisoft_num_prb2base_srate(n))
        /\ UNCHANGED objects
ms_amarisoft_Bandwidth ==
    \E n \in PrbInputs :
        /\ call' = Evaluated("ms_amarisoft.num_prb2bandwidth", n,
                             ms_amarisoft_num_prb2bandwidth(n))
        /\ UNCHANGED objects

NextPrb ==
    \/ ms_srs_SymbolSz
    \/ ms_srs_BaseSrate
    \/ ms_amarisoft_SymbolSz
    \/ ms_amarisoft_BaseSrate
    \/ ms_amarisoft_Bandwidth

SpecPrb == InitPrb /\ [][NextPrb]_vars

(* ---------------------------- srsUEMetrics ---------------------------- *)
\* Numbers are exact rationals n/d with d > 0 (numpy computes in doubles).
Frac(n, d) == [n |-> n, d |-> d]
Less(f, g) == f.n * g.d < g.n * f.d
Same(f, g) == f.n * g.d = g.n * f.d
\* f / k
DividedBy(f, k) == Frac(f.n, f.d * k)

\* "{:.2f}".format(f): the number of hundredths nearest to f, a tie going to
\* the even one.
Format2f(f) ==
    LET q == 100 * (f.n \div f.d) + (100 * (f.n % f.d)) \div f.d
        r == (100 * (f.n % f.d)) % f.d
    IN  IF 2 * r > f.d \/ (2 * r = f.d /\ q % 2 = 1) THEN q + 1 ELSE q

RECURSIVE SumOf(_)
SumOf(v) == IF v = <<>> THEN 0 ELSE Head(v) + SumOf(Tail(v))
RECURSIVE amax(_)
amax(v) == IF Len(v) = 1 THEN v[1]
           ELSE LET m == amax(Tail(v)) IN IF v[1] >= m THEN v[1] ELSE m
RECURSIVE amin(_)
amin(v) == IF Len(v) = 1 THEN v[1]
           ELSE LET m == amin(Tail(v)) IN IF v[1] <= m THEN v[1] ELSE m

\* A metric name is the sequence of its pieces, 'dl_brate+ul_brate' being
\* <<"dl_", "brate", "+", "ul_", "brate">>.
\* str.find(piece): the offset of the first occurrence, counted in pieces (it
\* is 0, positive or -1 when the offset in characters is), or -1
find(str, piece) ==
    IF \E i \in 1..Len(str) : str[i] = piece
    THEN (CHOOSE i \in 1..Len(str) :
              str[i] = piece /\ \A j \in 1..(i - 1) : str[j] # piece) - 1
    ELSE -1

\* str.split(sep)
RECURSIVE split(_, _)
split(str, sep) ==
    IF \A i \in 1..Len(str) : str[i] # sep THEN <<str>>
    ELSE LET i == CHOOSE k \in 1..Len(str) :
                      str[k] = sep /\ \A j \in 1..(k - 1) : str[j] # sep
         IN  <<SubSeq(str, 1, i - 1)>> \o split(SubSeq(str, i + 1, Len(str)), sep)

\* v[start::step]
Stride(v, start, step) ==
    [i \in 1..((Len(v) - start + step - 1) \div step) |-> v[start + (i - 1) * step + 1]]

\* a += b of numpy: element by element, a one-element b is added to every
\* element, any other pair of shapes is a ValueError
iadd(a, b) ==
    IF Len(b) = Len(a) THEN Returns([i \in 1..Len(a) |-> a[i] + b[i]])
    ELSE IF Len(b) = 1 THEN Returns([i \in 1..Len(a) |-> a[i] + b[1]])
    ELSE Raises("ValueError: operands could not be broadcast together")

\* numpy.trim_zeros(v, 'f')
RECURSIVE trim_zeros(_)
trim_zeros(v) == IF v # <<>> /\ Head(v) = 0 THEN trim_zeros(Tail(v)) ELSE v

\* numpy.convolve(v, numpy.ones((window,))/window, mode='valid'), as the
\* numerators over the denominator `window`: the sums of the windows of v, or,
\* for a window longer than v, window - len(v) + 1 times the sum of v
convolve(v, window) ==
    IF v = <<>> THEN Raises("ValueError: v cannot be empty")
    ELSE IF window <= Len(v)
    THEN Returns([i \in 1..(Len(v) - window + 1) |-> SumOf(SubSeq(v, i, i + window - 1))])
    ELSE Returns([i \in 1..(window - Len(v) + 1) |-> SumOf(v)])

\* ms_srs.py: srsUEMetrics, lines 476-479
VALID_OPERATIONS == {"avg", "sum", "max_rolling_avg", "min_rolling_avg"}
VALID_CRITERION == {"eq", "gt", "lt"}
CRITERION_TO_SYM == [eq |-> "==", gt |-> ">", lt |-> "<"]
CRYTERION_TO_SYM_OPPOSITE == [eq |-> "!=", gt |-> "<=", lt |-> ">="]

\* verify(), lines 503-516: the sum of the '+'-joined columns
RECURSIVE verify_columns(_, _, _)
verify_columns(raw_data, metrics_list, sel_data) ==
    IF metrics_list = <<>> THEN Returns(sel_data)
    ELSE IF Head(metrics_list) \notin DOMAIN raw_data
    THEN Raises("ValueError: no field of name")
    ELSE IF sel_data = <<>>
    THEN verify_columns(raw_data, Tail(metrics_list), raw_data[Head(metrics_list)])
    ELSE LET r == iadd(sel_data, raw_data[Head(metrics_list)])
         IN  IF r.exc THEN r ELSE verify_columns(raw_data, Tail(metrics_list), r.ret)

\* verify(), lines 524-525: the other carriers are added to the first
RECURSIVE verify_carriers(_, _, _, _)
verify_carriers(sel_data, tmp_values, cc, num_cc) ==
    IF cc >= num_cc THEN Returns(sel_data)
    ELSE LET r == iadd(sel_data, Stride(tmp_values, cc, num_cc))
         IN  IF r.exc THEN r ELSE verify_carriers(r.ret, tmp_values, cc + 1, num_cc)

\* verify(), lines 518-525
verify_fold(raw_data, metric_str, sel_data) ==
    IF find(metric_str, "brate") # 0
    THEN verify_carriers(Stride(sel_data, 0, amax(raw_data[<<"cc">>]) + 1), sel_data,
                         1, amax(raw_data[<<"cc">>]) + 1)
    ELSE Returns(sel_data)

\* The extreme of the rolling averages
Rolling(r, min, window) ==
    IF r.exc THEN r
    ELSE Returns(Frac(IF min THEN amin(r.ret) ELSE amax(r.ret), window))

\* verify() were it to trim the zeros for neither rolling average
verify_aggregate_untrimmed(sel_data, operation, window) ==
    CASE operation = "avg" -> Returns(Frac(SumOf(sel_data), Len(sel_data)))
      [] operation = "sum" -> Returns(Frac(SumOf(sel_data), 1))
      [] operation = "max_rolling_avg" -> Rolling(convolve(sel_data, window), FALSE, window)
      [] operation = "min_rolling_avg" -> Rolling(convolve(sel_data, window), TRUE, window)

\* verify(), lines 527-538
verify_aggregate(sel_data, operation, window) ==
    CASE operation = "avg" -> Returns(Frac(SumOf(sel_data), Len(sel_data)))
      [] operation = "sum" -> Returns(Frac(SumOf(sel_data), 1))
      [] operation = "max_rolling_avg" -> Rolling(convolve(sel_data, window), FALSE, window)
      [] operation = "min_rolling_avg" ->
           Rolling(convolve(trim_zeros(sel_data), window), TRUE, window)

\* verify(), lines 542-546
verify_success(result, value, criterion) ==
    \/ criterion = "eq" /\ Same(result, value)
    \/ criterion = "gt" /\ Less(value, result)
    \/ criterion = "lt" /\ Less(result, value)

\* "{:.2f}{} {} {:.2f}{}".format(result, mbit_str, sym, value, mbit_str)
result_msg(result, mbit_str, sym, value) ==
    [result |-> Format2f(result), sym |-> sym, value |-> Format2f(value),
     mbit_str |-> mbit_str]

\* verify() were it to report with the symbol of the criterion in both cases
verify_report_same_symbol(success, result, value, mbit_str, criterion) ==
    [exc |-> ~success,
     ret |-> result_msg(result, mbit_str, CRITERION_TO_SYM[criterion], value)]

\* verify(), lines 556-561
verify_report(success, result, value, mbit_str, criterion) ==
    IF ~success
    THEN Raises(result_msg(result, mbit_str, CRYTERION_TO_SYM_OPPOSITE[criterion], value))
    ELSE Returns(result_msg(result, mbit_str, CRITERION_TO_SYM[criterion], value))

\* verify(), lines 548-561
verify_message(success, result, value, metric_str, criterion) ==
    IF find(metric_str, "brate") > 0
    THEN verify_report(success, DividedBy(result, 1000000), DividedBy(value, 1000000),
                       " Mbit/s", criterion)
    ELSE verify_report(success, result, value, "", criterion)

\* What verify() leaves behind: whether it raised, what it returned or
\* raised, the step it ended in, and its local variables sel_data (as folded)
\* and result as far as it got.
Verified(r, step, sel_data, result) ==
    [exc |-> r.exc, ret |-> r.ret, step |-> step, sel_data |-> sel_data,
     result |-> result]
NoData == <<>>
NoResult == Frac(0, 1)

\* verify(), lines 527-561
verify_result(sel_data, agg, value, metric_str, criterion) ==
    IF agg.exc THEN Verified(agg, "aggregate", sel_data, NoResult)
    ELSE Verified(verify_message(verify_success(agg.ret, Frac(value, 1), criterion),
                                 agg.ret, Frac(value, 1), metric_str, criterion),
                  "compare", sel_data, agg.ret)

\* verify(), lines 518-561
verify_folded(folded, value, operation, metric_str, criterion, window) ==
    IF folded.exc THEN Verified(folded, "fold", NoData, NoResult)
    ELSE verify_result(folded.ret, verify_aggregate(folded.ret, operation, window),
                       value, metric_str, criterion)

\* verify(), lines 502-561
verify_selected(raw_data, selected, value, operation, metric_str, criterion, window) ==
    IF selected.exc THEN Verified(selected, "select", NoData, NoResult)
    ELSE verify_folded(verify_fold(raw_data, metric_str, selected.ret),
                       value, operation, metric_str, criterion, window)

\* ms_srs.py: srsUEMetrics.verify(), lines 497-561
srsUEMetrics_verify(raw_data, value, operation, metric_str, criterion, window) ==
    IF operation \notin VALID_OPERATIONS
    THEN Verified(Raises("Unknown operation"), "validate", NoData, NoResult)
    ELSE IF criterion \notin VALID_CRITERION
    THEN Verified(Raises("Unknown operation"), "validate", NoData, NoResult)
    ELSE verify_selected(raw_data, verify_columns(raw_data, split(metric_str, "+"), <<>>),
                         value, operation, metric_str, criterion, window)

\* The samples of a metrics file: bit rates in bit/s
Samples == {0, 500000, 1000000}
RECURSIVE SeriesOf(_)
SeriesOf(len) ==
    IF len = 0 THEN {<<>>}
    ELSE {Append(v, x) : v \in SeriesOf(len - 1), x \in Samples}
Series ==
    UNION {SeriesOf(len) : len \in 2..MaxLen}
      \cup {<<10, 20, 30, 40>>, <<0, 0, 0, 5, 5, 5>>, <<60, 60>>, <<40, 40>>}

Reverse(v) == [i \in 1..Len(v) |-> v[Len(v) + 1 - i]]

\* numpy.genfromtxt(metrics_file, names=True): the columns by name.  The rows
\* of one sampling instant follow each other, one per carrier; ul_brate holds
\* the samples in the opposite order.
genfromtxt(v, carriers) ==
    (<<"cc">> :> [i \in 1..Len(v) |-> (i - 1) % carriers]) @@
    (<<"dl_", "brate">> :> v) @@ (<<"ul_", "brate">> :> Reverse(v)) @@
    (<<"brate">> :> v) @@ (<<"dl_", "mcs">> :> v)

MetricNames ==
    {<<"dl_", "brate">>, <<"brate">>, <<"dl_", "mcs">>,
     <<"dl_", "brate", "+", "ul_", "brate">>, <<"dl_", "snr">>}
Operations == VALID_OPERATIONS \cup {"median"}
Criteria == VALID_CRITERION \cup {"ge"}
Values == {5, 50, 500000, 1000000}

\* verify() is about to be called: the metrics file and the arguments.
InitMetrics ==
    /\ IdleObjects
    /\ \E v \in Series, carriers \in 1..MaxCarriers, value \in Values,
          operation \in Operations, metric_str \in MetricNames,
          criterion \in Criteria, window \in 1..MaxWindow :
           call = [name |-> "verify", series |-> v, carriers |-> carriers,
                   value |-> value, operation |-> operation,
                   metric_str |-> metric_str, criterion |-> criterion,
                   window |-> window, returned |-> FALSE,
                   out |-> Verified(Returns(""), "call", NoData, NoResult)]

\* The call of verify() is made.
srsUEMetrics_Verify ==
    /\ ~call.returned
    /\ call' = [call EXCEPT
                  !.returned = TRUE,
                  !.out = srsUEMetrics_verify(genfromtxt(call.series, call.carriers),
                                              call.value, call.operation, call.metric_str,
                                              call.criterion, call.window)]
    /\ UNCHANGED objects

NextMetrics == srsUEMetrics_Verify

SpecMetrics == InitMetrics /\ [][NextMetrics]_vars

(* ------------------------ srsEPC subscribers -------------------------- *)
\* None of Python
None == "None"
\* util.OSMO_AUTH_ALGO_NONE
OSMO_AUTH_ALGO_NONE == "none"
\* A value that Python takes for false: None or the empty string
Falsy(x) == x \in {None, ""}

\* str.upper() of the rlc_drb_mode strings
upper(str) ==
    CASE str \in {"UM", "um", "Um"} -> "UM"
      [] str \in {"AM", "am", "Am"} -> "AM"
      [] str \in {"TM", "tm"} -> "TM"
      [] OTHER -> str

\* srs_epc.py: rlc_drb_mode2qci(), lines 25-30
rlc_drb_mode2qci(rlc_drb_mode) ==
    IF upper(rlc_drb_mode) = "UM" THEN Returns(7)
    ELSE IF upper(rlc_drb_mode) = "AM" THEN Returns(9)
    ELSE Raises("Unexpected rlc_drb_mode")

\* record['qci'] = qci
SetQci(record, qci) ==
    [k \in DOMAIN record \cup {"qci"} |-> IF k = "qci" THEN qci ELSE record[k]]

\* configure(), lines 171-172: the loop from index i on (counted from 1); an
\* exception leaves the list as it is by then
RECURSIVE srsEPC_set_qci(_, _, _)
srsEPC_set_qci(subscriber_list, i, rlc_drb_mode) ==
    IF i > Len(subscriber_list) THEN Returns(subscriber_list)
    ELSE IF rlc_drb_mode2qci(rlc_drb_mode).exc
    THEN [exc |-> TRUE, ret |-> subscriber_list]
    ELSE srsEPC_set_qci([subscriber_list EXCEPT
                           ![i] = SetQci(@, rlc_drb_mode2qci(rlc_drb_mode).ret)],
                        i + 1, rlc_drb_mode)

\* What a method of the srsEPC leaves behind: the calls it made, whether it
\* raised, what it returned and the subscriber list.
Subscribed(r, ret, subscriber_list) ==
    [tr |-> r.tr, exc |-> r.exc, ret |-> ret, subscriber_list |-> subscriber_list]

\* configure(), lines 173-184
srsEPC_render_subscribers(subscriber_list, bad) ==
    Subscribed(Then(Call("render", srsEPC_FILES.config_file, NoPath, bad),
                    Call("render", srsEPC_FILES.db_file, NoPath, bad)),
               None, subscriber_list)

\* srs_epc.py: srsEPC.configure(), lines 157-184, with the subscribers
srsEPC_configure_subscribers(subscriber_list, rlc_drb_mode, bad) ==
    IF rlc_drb_mode = None
    THEN Subscribed(Raise("AssertionError"), None, subscriber_list)
    ELSE IF srsEPC_set_qci(subscriber_list, 1, rlc_drb_mode).exc
    THEN Subscribed(Raise("Unexpected rlc_drb_mode"), None,
                    srsEPC_set_qci(subscriber_list, 1, rlc_drb_mode).ret)
    ELSE srsEPC_render_subscribers(srsEPC_set_qci(subscriber_list, 1, rlc_drb_mode).ret, bad)

\* subscriber_add(), lines 187-189: the msisdn given, or the next one of the
\* resource pool, is set on the modem
srsEPC_set_msisdn(msisdn) ==
    IF msisdn.given = None
    THEN Then(Call("next_msisdn", msisdn.next, NoPath, {}),
              Call("set_msisdn", msisdn.next, NoPath, {}))
    ELSE Call("set_msisdn", msisdn.given, NoPath, {})
msisdn_of(msisdn) == IF msisdn.given = None THEN msisdn.next ELSE msisdn.given

\* subscriber_add(), lines 191-192
algo_of(modem, algo_str) ==
    IF algo_str = None
    THEN (IF Falsy(modem.auth_algo) THEN OSMO_AUTH_ALGO_NONE ELSE modem.auth_algo)
    ELSE algo_str

\* subscriber_add(), lines 197-198
NewSubscriber(subscriber_id, modem, msisdn, algo_str) ==
    [id |-> subscriber_id, imsi |-> modem.imsi, msisdn |-> msisdn,
     auth_algo |-> algo_str, ki |-> modem.ki, opc |-> None]

\* subscriber_add() were the record appended before the KI is looked at
srsEPC_subscriber_add_unchecked(subscriber_list, modem, msisdn, algo_str) ==
    IF algo_of(modem, algo_str) # OSMO_AUTH_ALGO_NONE /\ Falsy(modem.ki)
    THEN Subscribed(Then(srsEPC_set_msisdn(msisdn),
                         Raise("Auth algo selected but no KI specified")),
                    None,
                    Append(subscriber_list,
                           NewSubscriber(Len(subscriber_list), modem, msisdn_of(msisdn),
                                         algo_of(modem, algo_str))))
    ELSE Subscribed(Then(srsEPC_set_msisdn(msisdn), Log("Add subscriber")),
                    Len(subscriber_list),
                    Append(subscriber_list,
                           NewSubscriber(Len(subscriber_list), modem, msisdn_of(msisdn),
                                         algo_of(modem, algo_str))))

\* srs_epc.py: srsEPC.subscriber_add(), lines 186-202
srsEPC_subscriber_add(subscriber_list, modem, msisdn, algo_str) ==
    IF algo_of(modem, algo_str) # OSMO_AUTH_ALGO_NONE /\ Falsy(modem.ki)
    THEN Subscribed(Then(srsEPC_set_msisdn(msisdn),
                         Raise("Auth algo selected but no KI specified")),
                    None, subscriber_list)
    ELSE Subscribed(Then(srsEPC_set_msisdn(msisdn), Log("Add subscriber")),
                    Len(subscriber_list),
                    Append(subscriber_list,
                           NewSubscriber(Len(subscriber_list), modem, msisdn_of(msisdn),
                                         algo_of(modem, algo_str))))

\* The modems of a suite: with a KI and no algorithm, with an algorithm and
\* no KI, with neither
Modems ==
    {[imsi |-> "901700000000001", ki |-> "00112233445566778899aabbccddeeff",
      auth_algo |-> None],
     [imsi |-> "901700000000002", ki |-> None, auth_algo |-> "milenage"],
     [imsi |-> "901700000000003", ki |-> "", auth_algo |-> ""]}
\* The msisdn argument, and the msisdn the resource pool would hand out
Msisdns == {[given |-> g, next |-> "1001"] : g \in {None, "5000"}}
AlgoStrs == {None, OSMO_AUTH_ALGO_NONE, "xor"}
RlcDrbModes == {None, "UM", "am", "TM"}

\* An srsEPC without subscribers, not started.
InitEpc ==
    /\ kind = "srsEPC"
    /\ conf = [base |-> NoBase]
    /\ run_node = "local"
    /\ obj = [subscriber_list |-> <<>>]
    /\ procs = <<>>
    /\ stoplist = <<>>
    /\ remote_fs = {}
    /\ phase = "test"
    /\ cleaned = FALSE
    /\ call = [name |-> "init", tr |-> <<>>, exc |-> FALSE, ret |-> None,
               before |-> <<>>]

\* The method `name` was called with `args` and left r behind.
Called(name, args, r) ==
    /\ obj' = [subscriber_list |-> r.subscriber_list]
    /\ call' = [name |-> name, args |-> args, tr |-> r.tr, exc |-> r.exc, ret |-> r.ret,
                before |-> obj.subscriber_list]
    /\ UNCHANGED <<kind, conf, run_node, procs, stoplist, remote_fs, phase, cleaned>>

srsEPC_SubscriberAdd ==
    /\ Len(obj.subscriber_list) < MaxSubscribers
    /\ \E modem \in Modems, msisdn \in Msisdns, algo_str \in AlgoStrs :
          Called("subscriber_add",
                 [modem |-> modem, msisdn |-> msisdn.given, algo_str |-> algo_str],
                 srsEPC_subscriber_add(obj.subscriber_list, modem, msisdn, algo_str))

srsEPC_Configure ==
    /\ call.name # "configure"
    /\ \E rlc_drb_mode \in RlcDrbModes, bad \in PlainRuns({srsEPC_FILES.config_file}) :
          Called("configure", [rlc_drb_mode |-> rlc_drb_mode],
                 srsEPC_configure_subscribers(obj.subscriber_list, rlc_drb_mode, bad))

NextEpc ==
    \/ srsEPC_SubscriberAdd
    \/ srsEPC_Configure

SpecEpc == InitEpc /\ [][NextEpc]_vars

(* ---------------------- constructors and ports ------------------------ *)
\* enb_srs.py: rf_type_valid(), lines 48-49
srsENB_rf_type_valid(rf_type_str) ==
    rf_type_str \in {"zmq", "uhd", "soapy", "bladerf", "fapi"}
\* ms_srs.py: rf_type_valid(), lines 30-31
srsUE_rf_type_valid(rf_type_str) == rf_type_str \in {"zmq", "uhd", "soapy", "bladerf"}
\* ms_amarisoft.py: rf_type_valid(), lines 48-49
AmarisoftUE_rf_type_valid(rf_type_str) == rf_type_str \in {"uhd", "zmq"}

\* _zmq_base_bind_port: the first port of the range the instance owns, or
\* none (None for an srsUE, never assigned for the other kinds)
NoPort == <<>>
Port(base) == <<base>>

\* The resource pool of the suite run: next_zmq_port_range(owner, n) hands
\* out the n ports after the ones it has handed out and keeps no way back.
next_zmq_port_range(pool, owner, n) ==
    [ret |-> pool.next,
     pool |-> [next |-> pool.next + n,
               ranges |-> Append(pool.ranges, [owner |-> owner, base |-> pool.next, n |-> n])]]

\* What a constructor leaves behind: the calls it made, whether it raised,
\* the instances of the suite run and its resource pool.
Constructed(r, instances, pool) ==
    [tr |-> r.tr, exc |-> r.exc, instances |-> instances, pool |-> pool]
Invalid_rf_dev_type(suite) ==
    Constructed(Raise("Invalid rf_dev_type"), suite.instances, suite.pool)
Instance(kind_, zmq_base_bind_port) ==
    [kind |-> kind_, zmq_base_bind_port |-> zmq_base_bind_port, configured |-> FALSE]

\* enb_srs.py: srsENB.__init__(), lines 62-104
srsENB_init(suite, rf_dev_type) ==
    IF ~srsENB_rf_type_valid(rf_dev_type) THEN Invalid_rf_dev_type(suite)
    ELSE Constructed(Nothing, Append(suite.instances, Instance("srsENB", NoPort)), suite.pool)

\* srsUE.__init__() were the ports taken before the rf_dev_type is looked at
srsUE_init_ports_first(suite, rf_dev_type) ==
    IF ~srsUE_rf_type_valid(rf_dev_type)
    THEN Constructed(Then(Call("next_zmq_port_range", "4", NoPath, {}),
                          Raise("Invalid rf_dev_type")),
                     suite.instances,
                     next_zmq_port_range(suite.pool, Len(suite.instances) + 1, 4).pool)
    ELSE IF rf_dev_type = "zmq"
    THEN Constructed(Call("next_zmq_port_range", "4", NoPath, {}),
                     Append(suite.instances,
                            Instance("srsUE",
                                     Port(next_zmq_port_range(suite.pool,
                                                         Len(suite.instances) + 1, 4).ret))),
                     next_zmq_port_range(suite.pool, Len(suite.instances) + 1, 4).pool)
    ELSE Constructed(Nothing, Append(suite.instances, Instance("srsUE", NoPort)), suite.pool)

\* ms_srs.py: srsUE.__init__(), lines 89-117
srsUE_init(suite, rf_dev_type) ==
    IF ~srsUE_rf_type_valid(rf_dev_type) THEN Invalid_rf_dev_type(suite)
    ELSE IF rf_dev_type = "zmq"
    THEN Constructed(Call("next_zmq_port_range", "4", NoPath, {}),
                     Append(suite.instances,
                            Instance("srsUE",
                                     Port(next_zmq_port_range(suite.pool,
                                                         Len(suite.instances) + 1, 4).ret))),
                     next_zmq_port_range(suite.pool, Len(suite.instances) + 1, 4).pool)
    ELSE Constructed(Nothing, Append(suite.instances, Instance("srsUE", NoPort)), suite.pool)

\* AmarisoftUE.__init__() were it to ask for the ports of one carrier only
AmarisoftUE_init_two_ports(suite, rf_dev_type) ==
    IF ~AmarisoftUE_rf_type_valid(rf_dev_type) THEN Invalid_rf_dev_type(suite)
    ELSE IF rf_dev_type = "zmq"
    THEN Constructed(Call("next_zmq_port_range", "2", NoPath, {}),
                     Append(suite.instances,
                            Instance("AmarisoftUE",
                                     Port(next_zmq_port_range(suite.pool,
                                                         Len(suite.instances) + 1, 2).ret))),
                     next_zmq_port_range(suite.pool, Len(suite.instances) + 1, 2).pool)
    ELSE Constructed(Nothing, Append(suite.instances, Instance("AmarisoftUE", NoPort)),
                     suite.pool)

\* ms_amarisoft.py: AmarisoftUE.__init__(), lines 95-115
AmarisoftUE_init(suite, rf_dev_type) ==
    IF ~AmarisoftUE_rf_type_valid(rf_dev_type) THEN Invalid_rf_dev_type(suite)
    ELSE IF rf_dev_type = "zmq"
    THEN Constructed(Call("next_zmq_port_range", "4", NoPath, {}),
                     Append(suite.instances,
                            Instance("AmarisoftUE",
                                     Port(next_zmq_port_range(suite.pool,
                                                         Len(suite.instances) + 1, 4).ret))),
                     next_zmq_port_range(suite.pool, Len(suite.instances) + 1, 4).pool)
    ELSE Constructed(Nothing, Append(suite.instances, Instance("AmarisoftUE", NoPort)),
                     suite.pool)

\* conf.get('rf_dev_type', None)
RfDevTypes == {None, "zmq", "uhd", "soapy", "bladerf", "fapi", "lime"}

\* A suite run without instances, its resource pool untouched.
InitPool ==
    /\ kind = "suite"
    /\ conf = [base |-> NoBase]
    /\ run_node = "local"
    /\ obj = [instances |-> <<>>, pool |-> [next |-> 2000, ranges |-> <<>>]]
    /\ procs = <<>>
    /\ stoplist = <<>>
    /\ remote_fs = {}
    /\ phase = "test"
    /\ cleaned = FALSE
    /\ call = [name |-> "suite", args |-> [kind |-> None, rf_dev_type |-> None],
               tr |-> <<>>, exc |-> FALSE, before |-> obj]

\* cls(testenv, conf) was called and left r behind.
Instantiated(kind_, rf_dev_type, r) ==
    /\ obj' = [instances |-> r.instances, pool |-> r.pool]
    /\ call' = [name |-> "__init__", args |-> [kind |-> kind_, rf_dev_type |-> rf_dev_type],
                tr |-> r.tr, exc |-> r.exc, before |-> obj]
    /\ UNCHANGED <<kind, conf, run_node, procs, stoplist, remote_fs, phase, cleaned>>

srsENB_Init ==
    /\ Len(obj.instances) < MaxInstances
    /\ \E rf_dev_type \in RfDevTypes :
          Instantiated("srsENB", rf_dev_type, srsENB_init(obj, rf_dev_type))

srsUE_Init ==
    /\ Len(obj.instances) < MaxInstances
    /\ \E rf_dev_type \in RfDevTypes :
          Instantiated("srsUE", rf_dev_type, srsUE_init(obj, rf_dev_type))

AmarisoftUE_Init ==
    /\ Len(obj.instances) < MaxInstances
    /\ \E rf_dev_type \in RfDevTypes :
          Instantiated("AmarisoftUE", rf_dev_type, AmarisoftUE_init(obj, rf_dev_type))

\* configure() of an instance of the suite run, reduced to the state the
\* instance reaches (its steps are the configure actions above).
Instance_Configure ==
    \E i \in DOMAIN obj.instances :
        /\ ~obj.instances[i].configured
        /\ obj' = [obj EXCEPT !.instances[i].configured = TRUE]
        /\ call' = [name |-> "configure",
                    args |-> [kind |-> obj.instances[i].kind, rf_dev_type |-> None],
                    tr |-> <<>>, exc |-> FALSE, before |-> obj]
        /\ UNCHANGED <<kind, conf, run_node, procs, stoplist, remote_fs, phase, cleaned>>

NextPool ==
    \/ srsENB_Init
    \/ srsUE_Init
    \/ AmarisoftUE_Init
    \/ Instance_Configure

SpecPool == InitPool /\ [][NextPool]_vars

(* ----------------------------- suite run ------------------------------ *)
\* selftest/suite_test.py: the tests of test_suite, in the order of the
\* suite, and how each ends (lines 22, 29-34, 37-42, 45-50)
TestNames == <<"hello_world.py", "test_error.py", "test_fail.py", "test_fail_raise.py">>
TestEnding(name) ==
    CASE name = "hello_world.py" -> [how |-> "return", type |-> None, message |-> None]
      [] name = "test_error.py" ->
            [how |-> "assert False", type |-> "AssertionError", message |-> ""]
      [] name = "test_fail.py" ->
            [how |-> "test.set_fail", type |-> "EpicFail",
             message |-> "This failure is expected"]
      [] name = "test_fail_raise.py" ->
            [how |-> "raise Failure", type |-> "EpicFail",
             message |-> "This failure is expected"]

\* repr() of an exception without arguments
repr(type) == [AssertionError |-> "AssertionError()"][type]

\* The outcome of one test
Outcome(status, fail_type, fail_message) ==
    [status |-> status, fail_type |-> fail_type, fail_message |-> fail_message]
UNKNOWN == Outcome("UNKNOWN", None, None)
SKIP == Outcome("skip", None, None)
PASS == Outcome("pass", None, None)

\* Test.run(): the test script runs to its end; an exception it raises is
\* caught and recorded with its type name and repr(), a Failure with the
\* type and message it carries, and set_fail() records what it is given.
Test_run(name) ==
    CASE TestEnding(name).how = "return" -> PASS
      [] TestEnding(name).how = "assert False" ->
            Outcome("FAIL", TestEnding(name).type, repr(TestEnding(name).type))
      [] TestEnding(name).how \in {"test.set_fail", "raise Failure"} ->
            Outcome("FAIL", TestEnding(name).type, TestEnding(name).message)

\* SuiteRun.run_tests() were the run to end at the first test that fails
RECURSIVE SuiteRun_run_tests_until_fail(_, _, _)
SuiteRun_run_tests_until_fail(tests, names, i) ==
    IF i > Len(TestNames) THEN tests
    ELSE IF names # {} /\ TestNames[i] \notin names
    THEN SuiteRun_run_tests_until_fail([tests EXCEPT ![i] = SKIP], names, i + 1)
    ELSE IF Test_run(TestNames[i]).status = "FAIL"
    THEN [tests EXCEPT ![i] = Test_run(TestNames[i])]
    ELSE SuiteRun_run_tests_until_fail([tests EXCEPT ![i] = Test_run(TestNames[i])],
                                       names, i + 1)

\* SuiteRun.run_tests(names): every test of the suite, in order, is run if
\* it is named (or none is) and is marked skipped otherwise.
RECURSIVE SuiteRun_run_tests(_, _, _)
SuiteRun_run_tests(tests, names, i) ==
    IF i > Len(TestNames) THEN tests
    ELSE IF names # {} /\ TestNames[i] \notin names
    THEN SuiteRun_run_tests([tests EXCEPT ![i] = SKIP], names, i + 1)
    ELSE SuiteRun_run_tests([tests EXCEPT ![i] = Test_run(TestNames[i])], names, i + 1)

count_test_results(tests, status) == Cardinality({i \in DOMAIN tests : tests[i].status = status})

\* report.suite_to_text(): the line of the suite with its status and the
\* number of failed tests, then one line per test that has a result
suite_to_text(tests) ==
    [suite |-> [status |-> IF count_test_results(tests, "FAIL") > 0 THEN "FAIL" ELSE "PASS",
                name |-> "test_suite", failed |-> count_test_results(tests, "FAIL")],
     tests |-> [i \in {j \in DOMAIN tests : tests[j].status \in {"pass", "FAIL"}} |->
                  [status |-> tests[i].status, name |-> TestNames[i],
                   type |-> tests[i].fail_type, message |-> tests[i].fail_message]]]

\* suite_test.py, line 22: s = suite.SuiteRun(None, 'test_suite', s_def)
InitSuite ==
    /\ kind = "suite"
    /\ conf = [base |-> NoBase]
    /\ run_node = "local"
    /\ obj = [tests |-> [i \in DOMAIN TestNames |-> UNKNOWN]]
    /\ procs = <<>>
    /\ stoplist = <<>>
    /\ remote_fs = {}
    /\ phase = "test"
    /\ cleaned = FALSE
    /\ call = [name |-> "SuiteRun", names |-> {}, before |-> obj.tests,
               output |-> suite_to_text(obj.tests)]

\* suite_test.py, lines 23-24 and the like: s.run_tests(names), then
\* report.suite_to_text(s)
SuiteRun_RunTests ==
    \E names \in {n \in SUBSET {TestNames[i] : i \in DOMAIN TestNames} :
                     Cardinality(n) <= MaxNames} :
        /\ obj' = [tests |-> SuiteRun_run_tests(obj.tests, names, 1)]
        /\ call' = [name |-> "run_tests", names |-> names, before |-> obj.tests,
                    output |-> suite_to_text(SuiteRun_run_tests(obj.tests, names, 1))]
        /\ UNCHANGED <<kind, conf, run_node, procs, stoplist, remote_fs, phase, cleaned>>

NextSuite == SuiteRun_RunTests

SpecSuite == InitSuite /\ [][NextSuite]_vars

(* ------------------------- configuration trees ------------------------ *)
\* A configuration tree is a mapping from keys to scalars and mappings.
Scalar(v) == [scalar |-> v]
Mapping(kv) == [mapping |-> kv]
is_dict(t) == DOMAIN t = {"mapping"}
Keys(t) == DOMAIN t.mapping

\* overlay() were a mapping of the patch to replace the one of the base
config_overlay_replacing(base, patch) ==
    Mapping([k \in Keys(base) \cup Keys(patch) |->
               IF k \notin Keys(patch) THEN base.mapping[k] ELSE patch.mapping[k]])

\* config.overlay(base, patch): for every key of the patch, recurse where
\* both hold mappings and take the patch's value otherwise; keys of the base
\* alone survive.
RECURSIVE config_overlay(_, _)
config_overlay(base, patch) ==
    Mapping([k \in Keys(base) \cup Keys(patch) |->
               IF k \notin Keys(patch) THEN base.mapping[k]
               ELSE IF k \in Keys(base) /\ is_dict(base.mapping[k])
                       /\ is_dict(patch.mapping[k])
               THEN config_overlay(base.mapping[k], patch.mapping[k])
               ELSE patch.mapping[k]])

\* The mappings over the given keys with values from the given set
MappingsOf(keys, values) ==
    UNION {{Mapping(kv) : kv \in [ks -> values]} : ks \in SUBSET keys}
Scalars == {Scalar(v) : v \in 1..MaxScalar}
\* values['enb'] with two settings, and a setting beside it
ConfigTrees ==
    {config_overlay(t, u) :
        t \in MappingsOf({"enb"}, Scalars \cup MappingsOf({"enable_pcap", "rf_dev_sync"},
                                                         Scalars)),
        u \in MappingsOf({"timeout"}, Scalars)}

\* A base and two patches, nothing overlaid yet.
InitOverlay ==
    /\ IdleObjects
    /\ \E base \in ConfigTrees, patch1 \in ConfigTrees, patch2 \in ConfigTrees :
          call = [name |-> "overlay", base |-> base, patch1 |-> patch1, patch2 |-> patch2,
                  returned |-> FALSE, values |-> base, merged |-> base]

\* config.overlay(values, patch1); config.overlay(values, patch2), and the
\* same with the patches merged first
config_Overlay ==
    /\ call.name = "overlay" /\ ~call.returned
    /\ call' = [call EXCEPT
                  !.returned = TRUE,
                  !.values = config_overlay(config_overlay(call.base, call.patch1),
                                            call.patch2),
                  !.merged = config_overlay(call.base,
                                            config_overlay(call.patch1, call.patch2))]
    /\ UNCHANGED objects

NextOverlay == config_Overlay

SpecOverlay == InitOverlay /\ [][NextOverlay]_vars

(* --------------------------- console markers ------------------------- *)
\* The accumulated stdout of a process is the sequence of its words; a
\* marker is the sequence of its words, so 'RRC Connected' is:
RRC_Connected == <<"RRC", "Connected">>
RRC_IDLE == <<"RRC", "IDLE">>

\* str.rfind(sub) looking from offset i down: the highest offset at which sub
\* occurs (counted in words), or -1
RECURSIVE rfind_from(_, _, _)
rfind_from(str, sub, i) ==
    IF i < 0 THEN -1
    ELSE IF i + Len(sub) <= Len(str) /\ SubSeq(str, i + 1, i + Len(sub)) = sub THEN i
    ELSE rfind_from(str, sub, i - 1)
rfind(str, sub) == rfind_from(str, sub, Len(str) - Len(sub))

\* is_rrc_connected() were the comparison to allow equal offsets
srsUE_is_rrc_connected_or_equal(stdout) ==
    rfind(stdout, RRC_Connected) >= rfind(stdout, RRC_IDLE)

\* ms_srs.py: srsUE.is_rrc_connected(), lines 409-413
srsUE_is_rrc_connected(stdout) ==
    rfind(stdout, RRC_Connected) > rfind(stdout, RRC_IDLE)

\* The words a srsUE may print
Words == {"RRC", "Connected", "IDLE", "connected"}

\* A srsUE whose process has printed nothing yet.
InitStdout ==
    /\ IdleObjects
    /\ call = [name |-> "launch", stdout |-> <<>>, ret |-> FALSE]

\* The process prints a word, which is appended to its stdout.
Process_Output ==
    /\ Len(call.stdout) < MaxStdout
    /\ \E word \in Words :
          call' = [name |-> "output", stdout |-> Append(call.stdout, word), ret |-> FALSE]
    /\ UNCHANGED objects

srsUE_IsRrcConnected ==
    /\ call.name # "is_rrc_connected"
    /\ call' = [name |-> "is_rrc_connected", stdout |-> call.stdout,
                ret |-> srsUE_is_rrc_connected(call.stdout)]
    /\ UNCHANGED objects

NextStdout ==
    \/ Process_Output
    \/ srsUE_IsRrcConnected

SpecStdout == InitStdout /\ [][NextStdout]_vars

(* ------------------------------ ue_add -------------------------------- *)
\* self.ue of an srsENB: no UE (None), or the one UE
NoUe == <<>>
TheUe(ue) == <<ue>>

\* What ue_add() leaves behind: whether it raised, and self.ue
Attached(exc, ue) == [exc |-> exc, ue |-> ue]

\* ue_add() were the UE given last to replace the attached one
srsENB_ue_add_replacing(self_ue, ue) == Attached(FALSE, TheUe(ue))

\* enb_srs.py: srsENB.ue_add(), lines 431-434
srsENB_ue_add(self_ue, ue) ==
    IF self_ue # NoUe THEN Attached(TRUE, self_ue) ELSE Attached(FALSE, TheUe(ue))

\* The UEs of a suite
Ues == {[kind |-> k, addr |-> n] : k \in {"srsUE", "AmarisoftUE"}, n \in 1..MaxUes}

\* enb_srs.py: srsENB.__init__(), line 69: self.ue = None
InitUe ==
    /\ kind = "srsENB"
    /\ conf = [base |-> NoBase]
    /\ run_node = "local"
    /\ obj = [ue |-> NoUe]
    /\ procs = <<>>
    /\ stoplist = <<>>
    /\ remote_fs = {}
    /\ phase = "test"
    /\ cleaned = FALSE
    /\ call = [name |-> "__init__", ue |-> NoUe, exc |-> FALSE, before |-> NoUe]

srsENB_UeAdd ==
    /\ \E ue \in Ues :
          /\ obj' = [ue |-> srsENB_ue_add(obj.ue, ue).ue]
          /\ call' = [name |-> "ue_add", ue |-> TheUe(ue),
                      exc |-> srsENB_ue_add(obj.ue, ue).exc, before |-> obj.ue]
    /\ UNCHANGED <<kind, conf, run_node, procs, stoplist, remote_fs, phase, cleaned>>

NextUe == srsENB_UeAdd

SpecUe == InitUe /\ [][NextUe]_vars

(* ------------------------------ properties ---------------------------- *)
Failed(tr, op) == {k \in 1..Len(tr) : tr[k].op = op /\ ~tr[k].ok}
StartCall == call.name = "start"
CleanupCall == call.name = "cleanup"
Placement == IF is_local(run_node) THEN "local" ELSE "remote"
Stoplisted == {stoplist[k] : k \in 1..Len(stoplist)}

\* C1: in srsENB.start() and srsUE.connect(), once a pre-run task exits with a
\* non-zero code no later pre-run task is run and the main process is not
\* created, registered or launched.
C1_PrerunFailureAborts ==
    (StartCall /\ kind \in {"srsENB", "srsUE"}) =>
        \A k \in Failed(call.tr, "launch_sync") :
            /\ \A j \in (k + 1)..Len(call.tr) :
                  call.tr[j].op \notin {"launch_sync", "Process", "remember_to_stop", "launch"}
            /\ \A j \in 1..k : call.tr[j].op \notin {"Process", "remember_to_stop", "launch"}
            /\ call.pre.process = obj.process

\* A start whose second pre-run task failed after the first succeeded.
C1_Witness ==
    /\ StartCall /\ kind = "srsENB"
    /\ \E k \in Failed(call.tr, "launch_sync") : call.tr[k].arg = TaskName(2)
    /\ HasOk(call.tr, "launch_sync", TaskName(1))

\* The artifact pulls cleanup() declares for this configuration.
DeclaredPulls ==
    CASE kind = "srsENB" -> srsENB_Pulls(conf)
      [] kind = "srsUE" -> srsUE_Pulls(conf)
      [] kind = "AmarisoftUE" -> AmarisoftUE_Pulls
      [] kind = "srsEPC" -> srsEPC_Pulls
      [] OTHER -> {}

\* C2: srsENB.cleanup() of a started remote process whose post-run task exits
\* non-zero still attempts every declared pull and does not raise.
C2_PostrunFailureStillPulls ==
    (CleanupCall /\ kind = "srsENB" /\ call.pre.process # 0 /\ ~is_local(run_node)
       /\ Failed(call.tr, "launch_sync") # {}) =>
        /\ ~call.exc
        /\ \A a \in DeclaredPulls :
              Made(call.tr, "scpfrom", a) \/ (a = "scp-back-metrics" /\ call.pre.have_metrics_file)

\* Every failed pull of the last call was followed by a log entry.
FailuresLogged ==
    \A k \in Failed(call.tr, "scpfrom") : k < Len(call.tr) /\ call.tr[k + 1].op = "log"

\* cleanup() of a started, remotely placed object without a failing post-run task
RemoteCleanup ==
    /\ CleanupCall /\ kind \in {"srsENB", "srsUE", "srsEPC", "AmarisoftUE"}
    /\ call.pre.process # 0 /\ ~is_local(run_node)
    /\ Failed(call.tr, "launch_sync") = {}

\* C3 as stated: every declared pull is attempted exactly once in cleanup(),
\* whichever pulls fail, failures are logged and cleanup() does not raise.
C3_EveryPullOnce ==
    RemoteCleanup =>
        /\ ~call.exc
        /\ FailuresLogged
        /\ \A a \in DeclaredPulls : Count(call.tr, "scpfrom", a) = 1

\* C3: every declared pull is attempted exactly once in cleanup(), whichever
\* pulls fail, except the metrics pull, which is not attempted when the metrics
\* were retrieved before; failures are logged and cleanup() does not raise.
C3_EveryPullOnceUnlessRetrieved ==
    RemoteCleanup =>
        /\ ~call.exc
        /\ FailuresLogged
        /\ \A a \in DeclaredPulls :
              Count(call.tr, "scpfrom", a) =
                  IF a = "scp-back-metrics" /\ call.pre.have_metrics_file THEN 0 ELSE 1

\* A cleanup after the metrics were retrieved, in which two pulls failed.
C3_Witness ==
    /\ RemoteCleanup /\ kind = "srsENB" /\ call.pre.have_metrics_file
    /\ Cardinality(Failed(call.tr, "scpfrom")) >= 2

\* C4: scp_back_metrics() with default arguments and verify_metric() raise
\* when the metrics pull fails, and no other failed pull ends a call with an
\* exception.
C4_OnlyMetricsPullRaises ==
    \A k \in Failed(call.tr, "scpfrom") :
        (call.exc /\ k = Len(call.tr)) <=>
            /\ kind \in {"srsENB", "srsUE"}
            /\ call.name \in {"scp_back_metrics", "verify_metric"}
            /\ call.tr[k].arg = "scp-back-metrics"

\* verify_metric() of a remote srsUE raised from the failed metrics pull and
\* left the metrics marked as not retrieved.
C4_Witness ==
    /\ kind = "srsUE" /\ call.name = "verify_metric" /\ call.exc
    /\ ~call.pre.have_metrics_file /\ ~obj.have_metrics_file
    /\ Failed(call.tr, "scpfrom") # {}

Renders ==
    CASE kind = "srsENB" ->
            {"srsenb.conf", "srsenb_sib.conf", "srsenb_rr.conf", "srsenb_rb.conf"}
      [] kind = "srsUE" -> {"srsue.conf"}
      [] kind = "AmarisoftUE" -> {"amarisoft_lteue.cfg", "amarisoft_rf_driver.cfg"}
      [] kind = "srsEPC" -> {"srsepc.conf", "srsepc_user_db.csv"}
      [] kind = "OsmoPcu" -> {"osmo-pcu.cfg"}
Pushes ==
    CASE kind = "srsENB" ->
            {"remote_inst", "scp-inst-to-remote", "remote_run_dir", "scp-cfg-to-remote",
             "scp-cfg-sib-to-remote", "scp-cfg-rr-to-remote", "scp-cfg-rb-to-remote"}
      [] kind = "srsUE" ->
            {"remote_inst", "scp-inst-to-remote", "remote_run_dir", "scp-cfg-to-remote"}
      [] kind = "AmarisoftUE" ->
            {"remote_inst", "scp-inst-to-remote", "remote_run_dir", "scp-cfg-to-remote",
             "scp-cfg-rf-to-remote", "scp-ifup-to-remote"}
      [] kind = "srsEPC" ->
            {"remote_inst", "scp-inst-to-remote", "remote_run_dir", "scp-cfg-to-remote",
             "scp-db-to-remote"}
      [] kind = "OsmoPcu" -> {}
StagingOps == {"render", "recreate_remote_dir", "create_remote_dir", "scp"}
DoneBefore(l, a) ==
    \E k \in 1..(l - 1) : call.tr[k].op \in StagingOps /\ call.tr[k].arg = a /\ call.tr[k].ok

\* C6: the main process is launched only after every configuration file was
\* rendered and, on a remote node, the installation and every configuration
\* file were pushed; a failed render, directory recreation or push makes the
\* start raise without a launch.
C6_LaunchOnlyWhenStaged ==
    StartCall =>
        /\ \A l \in Ops(call.tr, "launch") :
              /\ \A a \in Renders : DoneBefore(l, a)
              /\ ~is_local(run_node) => \A a \in Pushes : DoneBefore(l, a)
        /\ (\E k \in 1..Len(call.tr) : call.tr[k].op \in StagingOps /\ ~call.tr[k].ok) =>
              /\ call.exc /\ ~Has(call.tr, "launch")
              /\ {p \in 1..Len(procs) : procs[p].launched} = call.pre.launched

\* A second start that raised from a failed push after a first one launched.
C6_Witness ==
    /\ StartCall /\ call.exc /\ Failed(call.tr, "scp") # {}
    /\ Len(procs) = 1 /\ procs[1].launched

\* C7: every launched main process is in the stop-list, and it was registered
\* before launch() was called.
C7_LaunchedIsRegistered ==
    /\ \A p \in 1..Len(procs) : procs[p].launched => p \in Stoplisted
    /\ \A l \in Ops(call.tr, "launch") :
          \E k \in Ops(call.tr, "remember_to_stop") : k < l

\* An OsmoPcu whose launch failed is in the stop-list.
C7_Witness ==
    /\ kind = "OsmoPcu" /\ StartCall /\ call.exc
    /\ Failed(call.tr, "launch") # {}
    /\ Len(procs) \in Stoplisted

\* C8: in the start paths of srsUE, AmarisoftUE and srsEPC a capability is
\* granted to a binary only after its RPATH was patched, and the process is
\* launched after both.
C8_RpathBeforeSetcapBeforeLaunch ==
    (StartCall /\ kind \in {"srsUE", "AmarisoftUE", "srsEPC"}) =>
        /\ \A j \in Ops(call.tr, "setcap") :
              \E i \in 1..(j - 1) :
                  /\ call.tr[i].op = "change_elf_rpath" /\ call.tr[i].ok
                  /\ call.tr[i].path = call.tr[j].path
        /\ \A l \in Ops(call.tr, "launch") :
              /\ \E j \in 1..(l - 1) : call.tr[j].op = "setcap" /\ call.tr[j].ok
              /\ \A i \in Ops(call.tr, "change_elf_rpath") \cup Ops(call.tr, "setcap") :
                    i < l /\ call.tr[i].ok

\* An AmarisoftUE was launched after both of its binaries were patched and
\* given the capability.
C8_Witness ==
    /\ StartCall /\ kind = "AmarisoftUE" /\ HasOk(call.tr, "launch", "launch")
    /\ Cardinality(Ops(call.tr, "setcap")) = 2

\* The keys of the configuration tree that hold artifact paths.
PathKeys ==
    CASE kind = "srsENB" ->
            {"metrics_filename", "tracing_filename", "sib_filename", "rr_filename",
             "rb_filename", "log_filename", "pcap_filename", "s1ap_pcap_filename"}
      [] kind = "srsUE" -> {"metrics_filename", "log_filename", "pcap_filename"}
      [] kind = "AmarisoftUE" -> {"log_filename", "ifup_filename"}
      [] OTHER -> {}
Configured == obj.file.config_file # NoPath

\* C9: after configure() every artifact path of the configuration tree, and
\* every path of the launch argv, is of the namespace of the placement.
C9_PathsFollowPlacement ==
    /\ Configured =>
          \A k \in PathKeys : k \in DOMAIN obj.values /\ obj.values[k].ns = Placement
    /\ \A p \in 1..Len(procs) : \A n \in 1..Len(procs[p].argv) :
          procs[p].argv[n].path # NoPath => procs[p].argv[n].path.ns = Placement

\* A remote srsENB whose resource configuration set a local log path by hand
\* was launched with remote paths.
C9_Witness ==
    /\ kind = "srsENB" /\ ~is_local(run_node) /\ conf.base = JunkBase
    /\ Len(procs) >= 1 /\ procs[1].launched
    /\ obj.values.log_filename.ns = "remote"

\* C10: the remote run directory another object of the same kind recreates on
\* the same host holds none of the files of this object.
C10_DistinctRunDirs ==
    (call.name = "peer.configure" /\ obj.process # 0) =>
        \A k \in Ops(call.tr, "recreate_remote_dir") :
            \A f \in DOMAIN obj.remote_file : ~Under(obj.remote_file[f], call.tr[k].path)

\* The table lookups C11 is about
TableLookups ==
    {"ms_srs.num_prb2symbol_sz", "ms_amarisoft.num_prb2symbol_sz",
     "ms_amarisoft.num_prb2bandwidth"}
LookupCall == call.name \in TableLookups \cup
                  {"ms_srs.num_prb2base_srate", "ms_amarisoft.num_prb2base_srate"}

\* C11: every PRB-count lookup returns a value for every num_prb in 1..110,
\* a value no smaller than for any smaller num_prb, and raises above 110.
C11_LookupsTotalMonotonicBounded ==
    call.name \in TableLookups =>
        IF call.num_prb <= 110
        THEN /\ ~call.exc
             /\ \A m \in 1..call.num_prb :
                   ~Lookup(call.name, m).exc /\ Lookup(call.name, m).ret <= call.ret
        ELSE call.exc

\* The table of C12
SymbolSzTable(n) ==
    CASE n <= 6 -> 128
      [] n > 6 /\ n <= 15 -> 256
      [] n > 15 /\ n <= 50 -> 768
      [] n > 50 /\ n <= 75 -> 1024
      [] n > 75 /\ n <= 110 -> 1536

\* C12: ms_amarisoft.num_prb2symbol_sz follows the table 128/256/768/1024/1536
\* with the breakpoints 6/15/50/75/110 and raises above 110;
\* num_prb2base_srate is that value times 15000.
C12_AmarisoftSymbolSzTable ==
    /\ call.name = "ms_amarisoft.num_prb2symbol_sz" =>
          IF call.num_prb > 110 THEN call.exc
          ELSE ~call.exc /\ call.ret = SymbolSzTable(call.num_prb)
    /\ call.name = "ms_amarisoft.num_prb2base_srate" =>
          IF call.num_prb > 110 THEN call.exc
          ELSE ~call.exc /\ call.ret = SymbolSzTable(call.num_prb) * 15000

\* The base sample rate of a 100 PRB cell is 23.04 MHz.
C12_Witness ==
    /\ call.name = "ms_amarisoft.num_prb2base_srate"
    /\ call.num_prb = 100 /\ ~call.exc /\ call.ret = 23040000

\* The keys of the configuration that configure() of each class computes
ComputedKeys ==
    CASE kind = "srsENB" ->
           {"metrics_filename", "tracing_filename", "sib_filename", "rr_filename",
            "rb_filename", "log_filename", "pcap_filename", "s1ap_pcap_filename"}
      [] kind = "srsUE" -> {"metrics_filename", "log_filename", "pcap_filename"}
      [] kind = "AmarisoftUE" -> {"log_filename", "ifup_filename"}
      [] kind = "srsEPC" -> {"run_addr"}
      [] kind = "OsmoPcu" -> {"pcu_socket_path"}

\* C13: after configure() of every component, a key that the component
\* computes holds the computed value, whatever the suite-level or
\* resource-specific configuration holds for that key.
C13_ComputedValuesWin ==
    Configured =>
        \A k \in ComputedKeys :
            /\ k \in DOMAIN obj.values
            /\ k \in DOMAIN conf.base => obj.values[k] # conf.base[k]

\* verify() has been called and got as far as `step`
VerifyAt(steps) == call.name = "verify" /\ call.returned /\ call.out.step \in steps

\* N = 1 + the maximum of the 'cc' column
NumCarriers == 1 + amax(genfromtxt(call.series, call.carriers)[<<"cc">>])

\* The row i of the selected series: the sum of the '+'-joined columns
SelectedRow(i) ==
    IF call.metric_str = <<"dl_", "brate", "+", "ul_", "brate">>
    THEN call.series[i] + call.series[Len(call.series) + 1 - i]
    ELSE call.series[i]

\* The value of sampling instant t: the sum of its NumCarriers rows
RECURSIVE InstantFrom(_, _)
InstantFrom(t, c) ==
    IF c >= NumCarriers THEN 0
    ELSE SelectedRow((t - 1) * NumCarriers + c + 1) + InstantFrom(t, c + 1)

\* C14: verify() folds the selected series into one value per sampling
\* instant, the sum of the rows of the N carriers, for every metric name.
C14_FoldsEveryMetric ==
    VerifyAt({"aggregate", "compare"}) /\ Len(call.series) % NumCarriers = 0 =>
        call.out.sel_data =
            [t \in 1..(Len(call.series) \div NumCarriers) |-> InstantFrom(t, 0)]

\* The number of leading zero samples of v
LeadingZeros(v) ==
    CHOOSE k \in 0..Len(v) :
        /\ \A i \in 1..k : v[i] = 0
        /\ k = Len(v) \/ v[k + 1] # 0
\* v without its first k samples
Without(v, k) == [i \in 1..(Len(v) - k) |-> v[i + k]]
\* The average of the window of v that starts at i
WindowAvg(v, i) ==
    Frac(SumOf([j \in 1..call.window |-> v[i + j - 1]]), call.window)
\* The places where a whole window of v starts
Windows(v) == 1..(Len(v) - call.window + 1)
IsMinOfWindows(x, v) ==
    /\ \E i \in Windows(v) : Same(x, WindowAvg(v, i))
    /\ \A i \in Windows(v) : ~Less(WindowAvg(v, i), x)
IsMaxOfWindows(x, v) ==
    /\ \E i \in Windows(v) : Same(x, WindowAvg(v, i))
    /\ \A i \in Windows(v) : ~Less(x, WindowAvg(v, i))
TrimmedData == Without(call.out.sel_data, LeadingZeros(call.out.sel_data))

\* C15: for min_rolling_avg the result of verify() is the minimum over the
\* sliding windows of the folded series without its leading zero samples;
\* for max_rolling_avg it is the maximum over the windows of the whole folded
\* series (as long as the series holds a whole window).
C15_MinRollingAvgTrimsLeadingZeros ==
    /\ VerifyAt({"aggregate", "compare"}) /\ call.operation = "min_rolling_avg"
         /\ Windows(TrimmedData) # {}
         => call.out.step = "compare" /\ IsMinOfWindows(call.out.result, TrimmedData)
    /\ VerifyAt({"aggregate", "compare"}) /\ call.operation = "max_rolling_avg"
         /\ Windows(call.out.sel_data) # {}
         => call.out.step = "compare" /\ IsMaxOfWindows(call.out.result, call.out.sel_data)

\* [0,0,0,5,5,5] with window 3 gives 5, although its first window averages 0.
C15_Witness ==
    /\ VerifyAt({"compare"}) /\ call.operation = "min_rolling_avg"
    /\ call.series = <<0, 0, 0, 5, 5, 5>> /\ call.carriers = 1 /\ call.window = 3
    /\ Same(call.out.result, Frac(5, 1))
    /\ Same(WindowAvg(call.out.sel_data, 1), Frac(0, 1))

\* The aggregate x satisfies the criterion against the threshold
Satisfies(x, criterion, value) ==
    CASE criterion = "eq" -> x.n = value * x.d
      [] criterion = "gt" -> x.n > value * x.d
      [] criterion = "lt" -> x.n < value * x.d
\* The message shows the number x, as it is or in millionths
Shows(shown, x) ==
    \/ shown = Format2f(x)
    \/ shown = Format2f(DividedBy(x, 1000000))

\* C16: verify() returns a message with the symbol of the criterion exactly
\* when the aggregate satisfies the criterion against the threshold, and
\* otherwise raises an error whose message holds the computed value, the
\* opposite symbol and the threshold; an operation or criterion outside the
\* valid sets is rejected before anything is computed.
C16_VerifySucceedsIffCriterionHolds ==
    /\ VerifyAt({"validate", "select", "fold", "aggregate", "compare"})
         /\ (call.operation \notin {"avg", "sum", "max_rolling_avg", "min_rolling_avg"}
             \/ call.criterion \notin {"eq", "gt", "lt"})
         => call.out.exc /\ call.out.step = "validate" /\ call.out.sel_data = NoData
    /\ VerifyAt({"compare"}) =>
         /\ ~call.out.exc <=> Satisfies(call.out.result, call.criterion, call.value)
         /\ call.out.ret.sym =
              IF call.out.exc
              THEN [eq |-> "!=", gt |-> "<=", lt |-> ">="][call.criterion]
              ELSE [eq |-> "==", gt |-> ">", lt |-> "<"][call.criterion]
         /\ Shows(call.out.ret.result, call.out.result)
         /\ Shows(call.out.ret.value, Frac(call.value, 1))

\* verify(50, 'avg', criterion 'gt') over data whose average is 40 raises
\* "40.00 <= 50.00".
C16_Witness ==
    /\ VerifyAt({"compare"}) /\ call.series = <<40, 40>> /\ call.carriers = 1
    /\ call.operation = "avg" /\ call.criterion = "gt" /\ call.value = 50
    /\ call.metric_str = <<"dl_", "mcs">>
    /\ call.out.exc
    /\ call.out.ret = [result |-> 4000, sym |-> "<=", value |-> 5000, mbit_str |-> ""]

\* The metric name holds the piece 'brate'
ContainsBrate == \E i \in 1..Len(call.metric_str) : call.metric_str[i] = "brate"

\* C17: the message of verify() shows the computed value and the threshold
\* divided by 1e6 and suffixed ' Mbit/s' for every metric name that contains
\* 'brate' at any position, the start of the name included, and unscaled
\* for every other name; the scaling does not change the outcome.
C17_MbitWheneverNameContainsBrate ==
    VerifyAt({"compare"}) =>
        /\ ~call.out.exc <=> Satisfies(call.out.result, call.criterion, call.value)
        /\ IF ContainsBrate
           THEN /\ call.out.ret.mbit_str = " Mbit/s"
                /\ call.out.ret.result = Format2f(DividedBy(call.out.result, 1000000))
                /\ call.out.ret.value = Format2f(DividedBy(Frac(call.value, 1), 1000000))
           ELSE /\ call.out.ret.mbit_str = ""
                /\ call.out.ret.result = Format2f(call.out.result)
                /\ call.out.ret.value = Format2f(Frac(call.value, 1))

IsLaunchSync(c) == c.op = "launch_sync"
\* The tasks that were run, in the order they were run
TasksRun ==
    LET runs == SelectSeq(call.tr, IsLaunchSync)
    IN  [i \in 1..Len(runs) |-> runs[i].arg]

\* C18: when a task of the post-run task list exits non-zero, the failure is
\* logged and every remaining task of the list is still run, in list order.
C18_PostrunFailureRunsTheRest ==
    (CleanupCall /\ kind = "srsENB") =>
        \A k \in Ops(call.tr, "conf.get") :
            call.tr[k].arg = "postrun_scripts" =>
                /\ TasksRun = call.tr[k].value
                /\ \A j \in Failed(call.tr, "launch_sync") :
                      j < Len(call.tr) /\ call.tr[j + 1].op = "log"

\* C19: cleanup() of a srsENB or srsUE whose main process was started (and
\* whose post-run tasks did not fail) records the KPIs of the process once,
\* for local as well as remote placement and whatever pulls failed.
C19_KpisAfterEveryCleanup ==
    (CleanupCall /\ kind \in {"srsENB", "srsUE"} /\ call.pre.process # 0
       /\ Failed(call.tr, "launch_sync") = {}) =>
        /\ ~call.exc
        /\ Count(call.tr, "set_kpis", "kpi_tree") = 1

\* The name of the binary of each class
BinaryName ==
    CASE kind = "srsENB" -> "srsenb"
      [] kind = "srsUE" -> "srsue"
      [] kind = "AmarisoftUE" -> "lteue"
      [] kind = "srsEPC" -> "srsepc"
      [] kind = "OsmoPcu" -> "osmo-pcu"
\* The argument is the path of the binary, in the namespace the process runs in
IsBinary(a, remote) ==
    /\ a.text = ""
    /\ a.path.ns = (IF remote THEN "remote" ELSE "local")
    /\ a.path.p # <<>> /\ a.path.p[Len(a.path.p)] = BinaryName
\* The argument is the path of the configuration file in the active namespace
IsConfig(a, remote) ==
    /\ a.path # NoPath
    /\ a = Arg("", IF remote THEN obj.remote_file.config_file ELSE obj.file.config_file)
\* The override flags of each class
OverrideFlags ==
    CASE kind = "srsUE" -> <<Arg("--gw.netns=srsue1", NoPath)>>
      [] kind = "srsEPC" ->
           <<Arg("--hss.db_file=", obj.remote_file.db_file),
             Arg("--log.filename=", obj.remote_file.log_file),
             Arg("--pcap.enable=true", NoPath),
             Arg("--pcap.filename=", obj.remote_file.pcap_file)>>
      [] OTHER -> <<>>
\* The additional arguments of the configuration, split into words
RECURSIVE WordsOf(_)
WordsOf(list) ==
    IF list = <<>> THEN <<>>
    ELSE [k \in 1..Len(Head(list)) |-> Arg(Head(list)[k], NoPath)] \o WordsOf(Tail(list))
AdditionalArguments ==
    IF kind \in {"srsENB", "srsUE"} THEN WordsOf(conf.additional_args) ELSE <<>>
\* The redirection that start_remotely() of srsENB appends for the malloc
\* interceptor
InterceptorRedirection(remote) ==
    IF kind = "srsENB" /\ remote /\ obj.enable_malloc_interceptor
    THEN <<Arg(" 2> ", obj.remote_file.interceptor_file)>> ELSE <<>>
After(argv, n) == SubSeq(argv, n + 1, Len(argv))

\* C20 as stated: for every component and placement the argv of the main
\* process is the binary, the configuration file of the active namespace,
\* the override flags, then the additional arguments in configuration order.
C20_ArgvBinaryConfigFlagsArgs ==
    \A p \in DOMAIN procs :
        /\ Len(procs[p].argv) >= 2
        /\ IsBinary(procs[p].argv[1], procs[p].remote)
        /\ IsConfig(procs[p].argv[2], procs[p].remote)
        /\ After(procs[p].argv, 2) = OverrideFlags \o AdditionalArguments

\* C20, amended: that is the argv of srsENB, srsUE, AmarisoftUE and srsEPC,
\* followed for a remote srsENB with the malloc interceptor by the redirection
\* of its output; the argv of OsmoPcu is the binary, -r 1, -c and the
\* configuration file, -i and the address of the BSC.
C20_ArgvPerComponent ==
    \A p \in DOMAIN procs :
        /\ IsBinary(procs[p].argv[1], procs[p].remote)
        /\ IF kind = "OsmoPcu"
           THEN After(procs[p].argv, 1) =
                   <<Arg("-r", NoPath), Arg("1", NoPath), Arg("-c", NoPath),
                     Arg("", obj.file.config_file), Arg("-i", NoPath),
                     Arg("bsc.addr", NoPath)>>
           ELSE /\ IsConfig(procs[p].argv[2], procs[p].remote)
                /\ After(procs[p].argv, 2) =
                     OverrideFlags \o AdditionalArguments
                       \o InterceptorRedirection(procs[p].remote)

\* A local srsUE launched with the flag and three additional words.
C20_Witness ==
    /\ kind = "srsUE"
    /\ \E p \in DOMAIN procs :
          /\ procs[p].launched /\ ~procs[p].remote
          /\ Len(procs[p].argv) = 6
          /\ procs[p].argv[3].text = "--gw.netns=srsue1"
          /\ procs[p].argv[6].text = "--b"

\* Every call the handler made to a collaborator succeeded
AllSucceeded == \A k \in 1..Len(call.tr) : call.tr[k].op # "raise" => call.tr[k].ok
Times(op) == Cardinality(Ops(call.tr, op))

\* C21: for every component and placement, a start()/connect() in which the
\* installation checks, the configuration, the staging and all pre-run tasks
\* succeed reaches Running: exactly one main process is created, registered
\* and launched.
C21_StartReachesRunning ==
    (StartCall /\ AllSucceeded) =>
        /\ ~call.exc
        /\ Times("Process") = 1 /\ Times("remember_to_stop") = 1 /\ Times("launch") = 1
        /\ \E p \in DOMAIN procs :
              /\ p \notin call.pre.launched
              /\ procs[p].launched /\ procs[p].state = "running"
              /\ p \in Stoplisted

\* The record without its QoS class, which configure() derives
Unclassified(record) == [k \in DOMAIN record \ {"qci"} |-> record[k]]
\* The list before the call is the beginning of the list after it
KeepsRecords ==
    /\ Len(call.before) <= Len(obj.subscriber_list)
    /\ \A i \in 1..Len(call.before) :
          Unclassified(obj.subscriber_list[i]) = Unclassified(call.before[i])

\* C22: after any sequence of subscriber_add calls the record at index i has
\* id = i, the ids are unique, no record is removed or reordered,
\* subscriber_add returns the id of the record it appended, and a
\* subscriber_add that fails leaves the list unchanged.
C22_SubscriberIdsAreIndexes ==
    /\ \A i \in 1..Len(obj.subscriber_list) : obj.subscriber_list[i].id = i - 1
    /\ \A i, j \in 1..Len(obj.subscriber_list) :
          obj.subscriber_list[i].id = obj.subscriber_list[j].id => i = j
    /\ KeepsRecords
    /\ call.name = "subscriber_add" =>
          IF call.exc THEN obj.subscriber_list = call.before
          ELSE /\ Len(obj.subscriber_list) = Len(call.before) + 1
               /\ call.ret = obj.subscriber_list[Len(obj.subscriber_list)].id
               /\ obj.subscriber_list[Len(obj.subscriber_list)].imsi = call.args.modem.imsi
    /\ call.name = "subscriber_add" /\ call.args.algo_str = "xor"
          /\ Falsy(call.args.modem.ki) => call.exc

\* A second subscriber was added and got the id 1.
C22_Witness ==
    /\ call.name = "subscriber_add" /\ ~call.exc /\ call.ret = 1
    /\ Len(obj.subscriber_list) = 2
    /\ obj.subscriber_list[1].imsi # obj.subscriber_list[2].imsi

\* C23: configure() of srsEPC raises, and renders nothing, whenever the
\* rlc_drb_mode is neither 'UM' nor 'AM' in any letter case, for every
\* subscriber list, the empty one included.
C23_BadRlcDrbModeFailsConfigure ==
    (call.name = "configure"
       /\ call.args.rlc_drb_mode \notin {"UM", "um", "Um", "uM", "AM", "am", "Am", "aM"}) =>
        call.exc /\ ~Has(call.tr, "render")

\* The device types the claim lists for each kind
SupportedRfDevTypes(kind_) ==
    CASE kind_ = "srsENB" -> {"zmq", "uhd", "soapy", "bladerf", "fapi"}
      [] kind_ = "srsUE" -> {"zmq", "uhd", "soapy", "bladerf"}
      [] kind_ = "AmarisoftUE" -> {"uhd", "zmq"}
Rejected ==
    /\ call.name = "__init__"
    /\ call.args.rf_dev_type \notin SupportedRfDevTypes(call.args.kind)

\* C24: constructing an srsENB, srsUE or AmarisoftUE whose rf_dev_type is
\* missing or outside the kind's supported set raises an error; no object
\* comes to exist that could be configured, and no port range is taken from
\* the shared allocator for it.
C24_InvalidRfDevTypeRejected ==
    /\ Rejected =>
          /\ call.exc
          /\ obj.instances = call.before.instances
          /\ obj.pool = call.before.pool
          /\ ~Has(call.tr, "next_zmq_port_range")
    /\ call.name = "configure" =>
          \E i \in DOMAIN call.before.instances :
              obj = [call.before EXCEPT !.instances[i].configured = TRUE]

\* An AmarisoftUE with rf_dev_type 'soapy' was rejected after a zmq srsUE
\* had taken its ports.
C24_Witness ==
    /\ Rejected /\ call.exc
    /\ call.args.kind = "AmarisoftUE" /\ call.args.rf_dev_type = "soapy"
    /\ Len(obj.pool.ranges) = 1

\* The ports of a range
PortsOf(range) == range.base .. (range.base + range.n - 1)
RangesOf(i) == {k \in DOMAIN obj.pool.ranges : obj.pool.ranges[k].owner = i}
IsPort(x) == x # NoPort
ZmqUE ==
    /\ call.name = "__init__" /\ ~call.exc
    /\ call.args.kind \in {"srsUE", "AmarisoftUE"} /\ call.args.rf_dev_type = "zmq"

\* C25: every srsUE or AmarisoftUE with rf_dev_type 'zmq' takes exactly one
\* range of 4 contiguous ports from the shared allocator, at construction;
\* the ranges of any two instances are disjoint and no range is released or
\* handed out again.
C25_ZmqPortRangesDisjoint ==
    /\ ZmqUE =>
          /\ Len(obj.pool.ranges) = Len(call.before.pool.ranges) + 1
          /\ Cardinality(RangesOf(Len(obj.instances))) = 1
          /\ \A k \in RangesOf(Len(obj.instances)) :
                /\ obj.pool.ranges[k].n = 4
                /\ Port(obj.pool.ranges[k].base) = obj.instances[Len(obj.instances)].zmq_base_bind_port
    /\ ~ZmqUE => obj.pool = call.before.pool
    /\ \A i \in DOMAIN obj.instances :
          IF IsPort(obj.instances[i].zmq_base_bind_port)
          THEN Cardinality(RangesOf(i)) = 1 ELSE RangesOf(i) = {}
    /\ \A j, k \in DOMAIN obj.pool.ranges :
          j # k => PortsOf(obj.pool.ranges[j]) \cap PortsOf(obj.pool.ranges[k]) = {}
    /\ \A k \in DOMAIN call.before.pool.ranges :
          k <= Len(obj.pool.ranges) /\ obj.pool.ranges[k] = call.before.pool.ranges[k]

\* A zmq AmarisoftUE took the second range of the suite run.
C25_Witness ==
    /\ ZmqUE /\ call.args.kind = "AmarisoftUE"
    /\ Len(obj.pool.ranges) = 2
    /\ obj.instances[Len(obj.instances)].zmq_base_bind_port = Port(obj.pool.ranges[2].base)

\* The tests run_tests was asked to run (all of them when none is named)
Named == IF call.names = {} THEN DOMAIN TestNames
         ELSE {i \in DOMAIN TestNames : TestNames[i] \in call.names}
Failing == {i \in Named : TestEnding(TestNames[i]).how # "return"}
\* The type name and the message the report is to show for a test
ShownType(i) == TestEnding(TestNames[i]).type
ShownMessage(i) ==
    IF TestEnding(TestNames[i]).how = "assert False" THEN "AssertionError()"
    ELSE TestEnding(TestNames[i]).message

RECURSIVE KeepsKeys(_, _, _)
KeepsKeys(base, patch, result) ==
    /\ is_dict(result)
    /\ \A k \in Keys(base) \ Keys(patch) :
          k \in Keys(result) /\ result.mapping[k] = base.mapping[k]
    /\ \A k \in Keys(base) \cap Keys(patch) :
          (is_dict(base.mapping[k]) /\ is_dict(patch.mapping[k])) =>
              /\ k \in Keys(result)
              /\ KeepsKeys(base.mapping[k], patch.mapping[k], result.mapping[k])
\* Every scalar key of both patches has the value of the later patch
RECURSIVE LaterWins(_, _, _)
LaterWins(patch1, patch2, result) ==
    \A k \in Keys(patch1) \cap Keys(patch2) :
        /\ (~is_dict(patch1.mapping[k]) /\ ~is_dict(patch2.mapping[k])) =>
              k \in Keys(result) /\ result.mapping[k] = patch2.mapping[k]
        /\ (is_dict(patch1.mapping[k]) /\ is_dict(patch2.mapping[k])) =>
              /\ k \in Keys(result) /\ is_dict(result.mapping[k])
              /\ LaterWins(patch1.mapping[k], patch2.mapping[k], result.mapping[k])
\* The patches set no key in common
RECURSIVE DisjointKeys(_, _)
DisjointKeys(patch1, patch2) ==
    \A k \in Keys(patch1) \cap Keys(patch2) :
        /\ is_dict(patch1.mapping[k]) /\ is_dict(patch2.mapping[k])
        /\ DisjointKeys(patch1.mapping[k], patch2.mapping[k])

\* C27: overlay never deletes a key of the base that is absent from the
\* patch; after applying P1 then P2 every scalar key present in both patches
\* holds P2's value whatever P1's value was; for patches with disjoint keys
\* applying them one after the other gives what merging them first gives.
C27_OverlayKeepsBaseLaterWins ==
    (call.name = "overlay" /\ call.returned) =>
        /\ KeepsKeys(call.base, call.patch1, config_overlay(call.base, call.patch1))
        /\ KeepsKeys(config_overlay(call.base, call.patch1), call.patch2, call.values)
        /\ LaterWins(call.patch1, call.patch2, call.values)
        /\ DisjointKeys(call.patch1, call.patch2) => call.values = call.merged

\* The base holds enb.rf_dev_sync, which no patch sets; both patches set
\* enb.enable_pcap, to different values; the second one's is in the result.
C27_Witness ==
    /\ call.name = "overlay" /\ call.returned
    /\ call.base = Mapping([enb |-> Mapping([rf_dev_sync |-> Scalar(1)])])
    /\ call.patch1 = Mapping([enb |-> Mapping([enable_pcap |-> Scalar(1)])])
    /\ call.patch2 = Mapping([enb |-> Mapping([enable_pcap |-> Scalar(2)])])
    /\ call.values = Mapping([enb |-> Mapping([rf_dev_sync |-> Scalar(1),
                                                enable_pcap |-> Scalar(2)])])

\* The places of the trace where a step of cleanup() happens
Sleeps == Ops(call.tr, "sleep")
PostrunTasks == Ops(call.tr, "launch_sync")
MetricsPulls == {k \in Ops(call.tr, "scpfrom") : call.tr[k].arg = "scp-back-metrics"}
OtherPulls == Ops(call.tr, "scpfrom") \ MetricsPulls
KpiExtractions == Ops(call.tr, "set_kpis")
Precede(earlier, later) == \A j \in earlier, k \in later : j < k

\* C28: in srsENB.cleanup() of a started, remotely placed process the grace
\* period sleep comes first, then the post-run tasks, then the metrics pull,
\* then the other pulls, then the KPI extraction; no pull starts before the
\* sleep has ended and the KPI extraction precedes no pull.
C28_CleanupStepsInOrder ==
    (CleanupCall /\ kind = "srsENB" /\ call.pre.process # 0 /\ ~is_local(run_node)) =>
        /\ Sleeps = {1}
        /\ Precede(Sleeps, PostrunTasks)
        /\ Precede(PostrunTasks, MetricsPulls)
        /\ Precede(MetricsPulls, OtherPulls)
        /\ Precede(OtherPulls, KpiExtractions)
        /\ Precede(Sleeps, Ops(call.tr, "scpfrom"))
        /\ Precede(Ops(call.tr, "scpfrom"), KpiExtractions)
        /\ Precede(Ops(call.tr, "stop"), Ops(call.tr, "scpfrom"))
        /\ Precede(Sleeps, Ops(call.tr, "stop"))

\* A cleanup in which all five steps happened.
C28_Witness ==
    /\ CleanupCall /\ kind = "srsENB" /\ call.pre.process # 0 /\ ~is_local(run_node)
    /\ Len(SelectSeq(call.tr, IsLaunchSync)) = 2
    /\ MetricsPulls # {} /\ Cardinality(OtherPulls) >= 2 /\ KpiExtractions # {}

\* The calls that go through scp_back_metrics
MetricsCalls == {"scp_back_metrics", "scp_back_metrics_besteffort", "verify_metric", "cleanup"}
HasMetrics == kind \in {"srsENB", "srsUE"} /\ obj.have_metrics_file

\* C29: once a call of scp_back_metrics has returned normally (after a pull
\* that succeeded, after a best-effort pull that failed, or for local
\* placement) the metrics count as retrieved for good, and every later call
\* of scp_back_metrics makes no pull and does not stop the process.
C29_MetricsCopiedBackOnce ==
    [][/\ (kind \in {"srsENB", "srsUE"} /\ ~call'.exc
             /\ call'.name \in {"scp_back_metrics", "scp_back_metrics_besteffort"}) =>
              obj'.have_metrics_file
       /\ HasMetrics => obj'.have_metrics_file
       /\ (HasMetrics /\ call'.name \in MetricsCalls) =>
              /\ \A k \in Ops(call'.tr, "scpfrom") : call'.tr[k].arg # "scp-back-metrics"
              /\ ~Has(call'.tr, "stop")]_vars

\* A second call of scp_back_metrics on a remote srsUE, after a best-effort
\* pull that failed, only logged that the metrics are there.
C29_Witness ==
    /\ kind = "srsUE" /\ ~is_local(run_node)
    /\ call.name = "scp_back_metrics" /\ ~call.exc
    /\ call.pre.have_metrics_file
    /\ ~Has(call.tr, "scpfrom") /\ Has(call.tr, "log")

\* The call pulled the metrics, or marked them as retrieved
PulledOrMarked ==
    /\ kind \in {"srsENB", "srsUE"} /\ call.name \in MetricsCalls
    /\ \/ MetricsPulls # {}
       \/ ~call.pre.have_metrics_file /\ obj.have_metrics_file

\* C30: whenever scp_back_metrics (and so verify_metric) issues the metrics
\* pull or marks the metrics as retrieved, the main process is not running:
\* one that still runs is stopped first, for local and remote placement.
C30_StoppedBeforeMetrics ==
    PulledOrMarked =>
        /\ obj.process # 0
        /\ procs[obj.process].state = "terminated"
        /\ Precede(Ops(call.tr, "stop"), MetricsPulls)

\* verify_metric on a local srsUE stopped the running process and marked
\* the metrics as retrieved.
C30_Witness ==
    /\ kind = "srsUE" /\ is_local(run_node) /\ call.name = "verify_metric"
    /\ call.pre.running /\ Has(call.tr, "stop")
    /\ obj.have_metrics_file /\ procs[obj.process].state = "terminated"

\* The metrics pull of the call was tried and failed
MetricsPullFailed ==
    \E k \in Failed(call.tr, "scpfrom") : call.tr[k].arg = "scp-back-metrics"
\* The calls in which scp_back_metrics is reached
ReachesScpBackMetrics(c) ==
    \/ c.name \in {"scp_back_metrics", "scp_back_metrics_besteffort", "verify_metric"}
    \/ c.name = "cleanup" /\ Failed(c.tr, "launch_sync") = {}

\* A step in which a failed mandatory pull raises and leaves the metrics
\* unmarked, and in which scp_back_metrics, reached with the metrics unmarked
\* on a started remote object, tries the pull
MandatoryPullStep ==
    kind \in {"srsENB", "srsUE"} =>
        /\ (call'.name \in {"scp_back_metrics", "verify_metric"}
              /\ \E k \in Failed(call'.tr, "scpfrom") :
                    call'.tr[k].arg = "scp-back-metrics") =>
               call'.exc /\ ~obj'.have_metrics_file
        /\ (~obj.have_metrics_file /\ obj.process # 0 /\ ~is_local(run_node)
              /\ call' # call /\ ReachesScpBackMetrics(call')) =>
               \E k \in Ops(call'.tr, "scpfrom") : call'.tr[k].arg = "scp-back-metrics"

\* C31: when the mandatory metrics pull fails the error is raised and the
\* metrics are not marked as retrieved; as long as they are not, a later
\* call of scp_back_metrics on the started remote object, the best-effort
\* one of cleanup() included, tries the pull again.
C31_FailedMandatoryPullIsRetried == [][MandatoryPullStep]_vars

\* The cleanup of a remote srsUE pulled the metrics that were not retrieved
\* before it.
C31_Witness ==
    /\ kind = "srsUE" /\ ~is_local(run_node) /\ CleanupCall
    /\ ~call.pre.have_metrics_file /\ call.pre.process # 0
    /\ MetricsPulls # {} /\ obj.have_metrics_file

\* The operations on the remote host
RemoteOps == {"recreate_remote_dir", "create_remote_dir", "scp", "scpfrom"}
IsRemoteCall(c) == c.op \in RemoteOps \/ c.path.ns = "remote"

\* C32: for a locally placed srsENB, srsUE, AmarisoftUE or srsEPC no
\* lifecycle operation performs a remote operation: no remote directory is
\* created, nothing is pushed or pulled, no rpath or capability is changed
\* on a remote path and no process is launched remotely.
C32_LocalPlacementStaysLocal ==
    (kind \in {"srsENB", "srsUE", "AmarisoftUE", "srsEPC"} /\ is_local(run_node)) =>
        /\ \A k \in 1..Len(call.tr) : ~IsRemoteCall(call.tr[k])
        /\ \A p \in DOMAIN procs :
              /\ ~procs[p].remote
              /\ \A a \in 1..Len(procs[p].argv) : procs[p].argv[a].path.ns # "remote"
        /\ remote_fs = {}

\* A local srsENB was configured, started and cleaned up.
C32_Witness ==
    /\ kind = "srsENB" /\ is_local(run_node) /\ CleanupCall
    /\ obj.process # 0 /\ procs[obj.process].launched
    /\ \E p \in DOMAIN procs : Len(procs[p].argv) >= 2

\* A cleanup() of an object whose main process was never created does
\* nothing at all
IdleCleanupStep ==
    (kind \in {"srsENB", "srsUE", "AmarisoftUE", "srsEPC"}
       /\ obj.process = 0 /\ call'.name = "cleanup" /\ call' # call) =>
        /\ call'.tr = <<>>
        /\ ~call'.exc
        /\ UNCHANGED <<obj, procs, stoplist, remote_fs>>

\* C33: if the main process was never created, cleanup() of srsENB, srsUE,
\* AmarisoftUE and srsEPC performs no remote operation, runs no post-run
\* task, changes no state and does not raise.
C33_CleanupWithoutProcessIsIdle == [][IdleCleanupStep]_vars

\* A remote AmarisoftUE whose connect() failed while staging was cleaned up.
C33_Witness ==
    /\ kind = "AmarisoftUE" /\ ~is_local(run_node) /\ CleanupCall
    /\ call.pre.process = 0 /\ obj.process = 0 /\ call.tr = <<>>
    /\ remote_fs # {}

\* The places (counted from 1) where the marker occurs in the stdout
Occurrences(marker) ==
    {i \in 1..Len(call.stdout) :
        /\ i + Len(marker) - 1 <= Len(call.stdout)
        /\ \A j \in 1..Len(marker) : call.stdout[i + j - 1] = marker[j]}
Last(places) == CHOOSE i \in places : \A j \in places : j <= i

\* C34: as the stdout of an srsUE grows, is_rrc_connected() is true exactly
\* when 'RRC Connected' has occurred and its last occurrence lies after the
\* last occurrence of 'RRC IDLE'; it is false when neither has occurred; the
\* markers are matched exactly and with their case.
C34_RrcConnectedAfterLastIdle ==
    call.name = "is_rrc_connected" =>
        (call.ret <=>
            /\ Occurrences(<<"RRC", "Connected">>) # {}
            /\ \/ Occurrences(<<"RRC", "IDLE">>) = {}
               \/ Last(Occurrences(<<"RRC", "Connected">>))
                     > Last(Occurrences(<<"RRC", "IDLE">>)))

\* The UE connected, went idle and connected again.
C34_Witness ==
    /\ call.name = "is_rrc_connected" /\ call.ret
    /\ call.stdout = <<"RRC", "Connected", "RRC", "IDLE", "RRC", "Connected">>

\* C35: an srsENB has at most one UE attached in every reachable state: the
\* first ue_add sets it, and every later ue_add raises an error and leaves
\* the attached UE unchanged.
C35_AtMostOneUe ==
    /\ Len(obj.ue) <= 1
    /\ call.name = "ue_add" =>
          IF Len(call.before) = 0
          THEN ~call.exc /\ obj.ue = call.ue
          ELSE call.exc /\ obj.ue = call.before

\* A second UE, another one, was refused.
C35_Witness ==
    /\ call.name = "ue_add" /\ call.exc
    /\ Len(call.before) = 1 /\ call.ue # call.before /\ obj.ue = call.before

\* The launches of the object, in the order they were made
Launches == {p \in DOMAIN procs : procs[p].launched}

\* C36: the additional launch arguments of srsENB and srsUE are recomputed at
\* every configure(): starting the same object several times with unchanged
\* configuration never accumulates arguments, so the argv of every later
\* launch is the argv of the first one.
C36_ArgvOfLaterLaunchesSame ==
    kind \in {"srsENB", "srsUE"} =>
        /\ \A p, q \in DOMAIN procs : procs[p].argv = procs[q].argv
        /\ Len(obj.additional_args) > 0 =>
              ArgList(obj.additional_args) = WordsOf(conf.additional_args)

\* An object with additional arguments was launched twice.
C36_Witness ==
    /\ kind = "srsUE" /\ Cardinality(Launches) = 2
    /\ Len(obj.additional_args) = 3
    /\ procs[1].argv = procs[2].argv

\* The standard LTE bandwidths, in PRB
StandardPrb == {6, 15, 25, 50, 75, 100}
Outcome_of(c) == [exc |-> c.exc, ret |-> c.ret]

\* C37: for every standard PRB count the num_prb2symbol_sz of ms_srs and the
\* one of ms_amarisoft return the same symbol size, and so the two
\* num_prb2base_srate the same base sample rate.
C37_SymbolSzImplementationsAgree ==
    call.name \in TableLookups \cup {"ms_srs.num_prb2base_srate"} =>
        (call.num_prb \in StandardPrb =>
            /\ call.name = "ms_srs.num_prb2symbol_sz" =>
                  Outcome_of(call) = ms_amarisoft_num_prb2symbol_sz(call.num_prb)
            /\ call.name = "ms_amarisoft.num_prb2symbol_sz" =>
                  Outcome_of(call) = ms_srs_num_prb2symbol_sz(call.num_prb)
            /\ call.name = "ms_srs.num_prb2base_srate" =>
                  Outcome_of(call) = ms_amarisoft_num_prb2base_srate(call.num_prb))

\* The staging steps of the call, in the order they were made
IsStaging(c) == c.op \in {"recreate_remote_dir", "scp"}
Staging == SelectSeq(call.tr, IsStaging)
\* The number of configuration files of each kind
ConfigFiles ==
    CASE kind = "srsENB" -> 4
      [] kind = "srsUE" -> 1
      [] kind = "AmarisoftUE" -> 3

\* C38: in configure() of a remotely placed srsENB, srsUE or AmarisoftUE the
\* remote installation directory is recreated, the installation tree
\* pushed, the remote run directory recreated and then each configuration
\* file pushed, into the run directory just recreated; a step that fails is
\* the last one.
C38_StagingInOrder ==
    (StartCall /\ kind \in {"srsENB", "srsUE", "AmarisoftUE"} /\ ~is_local(run_node)) =>
        /\ Len(Staging) >= 1 =>
              Staging[1].op = "recreate_remote_dir" /\ Staging[1].arg = "remote_inst"
        /\ Len(Staging) >= 2 =>
              Staging[2].op = "scp" /\ Staging[2].arg = "scp-inst-to-remote"
        /\ Len(Staging) >= 3 =>
              Staging[3].op = "recreate_remote_dir" /\ Staging[3].arg = "remote_run_dir"
        /\ \A k \in 4..Len(Staging) :
              /\ Staging[k].op = "scp" /\ Staging[k].arg # "scp-inst-to-remote"
              /\ Under(Staging[k].path, Staging[3].path)
        /\ Len(Staging) <= 3 + ConfigFiles
        /\ \A k \in 1..(Len(Staging) - 1) : Staging[k].ok
        /\ (Staging # <<>> /\ ~Staging[Len(Staging)].ok) =>
              /\ call.exc
              /\ \A k \in 1..Len(call.tr) :
                    (IsStaging(call.tr[k]) /\ ~call.tr[k].ok) =>
                        \A j \in (k + 1)..Len(call.tr) : call.tr[j].op = "raise"
        /\ (Staging # <<>> /\ Staging[Len(Staging)].ok) => Len(Staging) = 3 + ConfigFiles

\* A remote srsENB was staged completely and launched.
C38_Witness ==
    /\ StartCall /\ kind = "srsENB" /\ ~is_local(run_node)
    /\ Len(Staging) = 7 /\ Staging[7].ok
    /\ HasOk(call.tr, "launch", "launch")

====
